---- MODULE Spec2Model ----
(***************************************************************************)
(* Beat-synchronised flight: TurnController, FlightPath, the world grid    *)
(* oracle, the model-chunk generator and the beat detector.                *)
(*                                                                         *)
(* Units.  Angles are counted in quarter turns (1 = PI/2 rad): every angle *)
(* the controller ever holds is 0 plus or minus a whole number of PI/2,    *)
(* and those sums and the 2*PI corrections of normalizeAngle are exact in  *)
(* IEEE doubles.  Times are whole milliseconds; a turn's progress p/175 is *)
(* held as its numerator p.  World coordinates of the oracle are counted   *)
(* in half units (so BLOCK_SIZE/2 = 12.5 is the integer 25); positions     *)
(* read off the flight path are counted in sixteenths of a unit.           *)
(***************************************************************************)
EXTENDS Integers, Sequences, FiniteSets, TLC

\* ------------------------------------------------------------------ bounds
MaxTurns == 3          \* turns that may be started in one run
MaxCallbacks == 1      \* longest subscriber list
MaxReentry == 2        \* longest subscriber list with reentrant subscribers
MaxSwitches == 1       \* perspective switches a caller may request
MaxDistance == 9       \* distance after which the camera stops, in units
MaxRun == 40           \* distance after which the speed runs stop, in units
MaxFlight == 400       \* distance after which the long flights stop, in units
MaxJourney == 2500   \* distance after which the fast journeys stop, in units
MaxSubscribers == 2    \* longest subscriber list of the detector's audience
MaxFrames == 125       \* updateBeatDetection calls in one run
MaxResets == 1         \* resetBeatDetection calls in one run
ChangeStride == 40     \* frames between two changes of the audio level
FrequencyBins == 8     \* bins of the analyser's data
MaxEventFrames == 165  \* frames rendered in one session
MaxPathPoints == 26     \* control points past which the path is left alone

\* --------------------------------------------------------------- constants
TURN_DURATION_MS == 175
TURN_CHECK_DISTANCE == 100
POST_TURN_CHECK_DISTANCE == 200
MAX_BUILDING_WIDTH == 20
COLLISION_BUFFER == 5
BLOCK_SIZE == 25
PATH_SEGMENT_LENGTH == 100
EXTEND_AHEAD_DISTANCE == 1000
EXTEND_THRESHOLD == 500
DEFAULT_BASE_SPEED == 50
TRANSITION_DURATION_MS == 800
THIRD_PERSON_DURATION_MS == 6000
STREET_WIDTH == 180
BUILDING_GAP == 30
BUILDING_WIDTH == 100
BUILDINGS_PER_BLOCK == 3
HISTORY_SIZE == 43
MIN_BEAT_INTERVAL_MS == 100
TRANSITION_HISTORY_SIZE == 120
MIN_TRANSITION_INTERVAL_MS == 8000
HEAVY_BEAT_PRE_SILENCE_FRAMES == 12
MIN_HEAVY_BEAT_INTERVAL_MS == 2000
RECENT_SIZE == 30
FFT_SIZE == 2048
SAMPLE_RATE == 44100

Directions == {"left", "right"}
CallbackIds == {"cbA", "cbB"}
\* subscribers that call executeTurn from inside the callback
ReentrantIds == {"againLeft", "againRight"}
\* frame times handed to update, in ms (0: two frames in the same ms)
FrameSteps == {0, 16, 100, 175}
\* frame times handed to the camera's update, in ms
CameraFrameSteps == {0, 100}
PerspectiveCallbackIds == {"pcA"}
\* speeds and boost multipliers handed to the camera by its callers
SpeedChoices == {50}
BoostChoices == {<<2, 1>>}
\* interpolation factors handed to easeToBaseSpeed
EaseChoices == {<<1, 1>>}

VARIABLES
  turnState,              \* TurnController.turnState
  currentFlightAngle,     \* TurnController.currentFlightAngle
  turnCompleteCallbacks,  \* TurnController.turnCompleteCallbacks
  positionProvider,       \* TurnController.positionProvider: "null" or "set"
  providerPos,            \* what the provider returns: <<x, z>> in half units
  flightAngle,            \* FlightPath.flightAngle
  controlPoints,          \* FlightPath.controlPoints: <<x, z>> in units
  lastOp,                 \* the TurnController operation that ran last
  ret,                    \* what it returned
  notified,               \* callbacks invoked by the last update, in order
  sinceTurn,              \* observer: ms of update time since executeTurn
  fixed16,                \* observer: every step since executeTurn was 16 ms
  turnsStarted,           \* observer: executeTurn calls that returned true
  currentDistance,        \* CameraController.currentDistance, in units
  currentZ,               \* CameraController.currentZ, in units
  baseSpeed,              \* CameraController.baseSpeed, in units per second
  currentSpeed,           \* CameraController.currentSpeed, in units per second
  perspectiveMode,        \* CameraController.perspectiveMode
  perspectiveTransitionProgress, \* ms of transition, 800 = the code's 1
  thirdPersonTimer,       \* CameraController.thirdPersonTimer, in ms
  timeInThirdPerson,      \* history: frame time, in ms, of the updates that
                          \* began in settled third-person mode since the
                          \* mode settled there or was re-triggered
  isTransitioning,        \* CameraController.isTransitioning
  targetPerspective,      \* CameraController.targetPerspective
  perspectiveChangeCallbacks,    \* CameraController.perspectiveChangeCallbacks
  perspectiveNotified,    \* perspective callbacks invoked by the last operation
  switchesIssued,         \* observer: switchTo... calls made by the caller
  worldChunk,             \* the chunk createModelChunk built last
  probe,                  \* the world point last put to the oracle, half units
  probeBlocked,           \* what isPointNearBuilding said of it
  frequencyData,          \* the analyser's byte frequency data
  now,                    \* performance.now(), in ms
  energyHistory,          \* beat detector: energyHistory
  longTermEnergyHistory,  \* beat detector: longTermEnergyHistory
  lastBeatTime,           \* beat detector: lastBeatTime
  lastTransitionTime,     \* beat detector: lastTransitionTime
  lastHeavyBeatShiftTime, \* beat detector: lastHeavyBeatShiftTime
  currentBeatIntensity,   \* beat detector: currentBeatIntensity, <<num, den>>
  beatCallbacks,          \* beat detector: beatCallbacks
  transitionCallbacks,    \* beat detector: transitionCallbacks
  heavyBeatShiftCallbacks,\* beat detector: heavyBeatShiftCallbacks
  beatRet,                \* what the last updateBeatDetection returned
  beatNotified,           \* callbacks it invoked: <<event, callback, intensity>>
  pushed,                 \* observer: every sample pushed since the last reset
  frames,                 \* observer: updateBeatDetection calls so far
  resets,                 \* observer: resetBeatDetection calls so far
  track,                  \* the audio played: kick-band level of each frame
  pace,                   \* ms between two rendered frames
  eventLog,               \* observer: time of the last firing of each kind
  pathKind,               \* which FlightPath the build holds: "spline", "segments"
  currentStreet,          \* segments FlightPath: <<currentStreetX, currentStreetZ>>
  lookup,                 \* the last getPositionAtDistance call and its answer
  \* main.ts
  started,                \* started
  frameCalls,             \* the calls animate has made in the frame it is
                          \* running (or ran last), in order
  poolLoaded,             \* ModelChunkManager.isReady
  loadedAround,           \* the distance travelled whose camera position the
                          \* chunks were last loaded around (-1: never)
  analyserNode            \* audioAnalyser's analyserNode: "null", "created"
                          \* (no source feeds it) or "connected" (the
                          \* captured stream's source feeds it)

turnVars == <<turnState, currentFlightAngle, turnCompleteCallbacks,
              positionProvider, providerPos, flightAngle, controlPoints,
              lastOp, ret, notified, sinceTurn, fixed16, turnsStarted>>

cameraVars == <<currentDistance, currentZ, baseSpeed, currentSpeed,
                perspectiveMode, perspectiveTransitionProgress,
                thirdPersonTimer, timeInThirdPerson, isTransitioning,
                targetPerspective, perspectiveChangeCallbacks,
                perspectiveNotified, switchesIssued>>

worldVars == <<worldChunk, probe, probeBlocked>>

beatVars == <<frequencyData, now, energyHistory, longTermEnergyHistory,
              lastBeatTime, lastTransitionTime, lastHeavyBeatShiftTime,
              currentBeatIntensity, beatCallbacks, transitionCallbacks,
              heavyBeatShiftCallbacks, beatRet, beatNotified, pushed, frames,
              resets, track, pace, eventLog>>

pathVars == <<pathKind, currentStreet, lookup>>

loopVars == <<started, frameCalls, poolLoaded, loadedAround, analyserNode>>

vars == <<turnVars, cameraVars, worldVars, beatVars, pathVars, loopVars>>

\* ------------------------------------------------------------ arithmetic
Abs(n) == IF n < 0 THEN 0 - n ELSE n
Min(a, b) == IF a < b THEN a ELSE b
Max(a, b) == IF a > b THEN a ELSE b

\* Math.round of the rational num/den (den > 0): floor(num/den + 1/2)
MathRound(num, den) == (2 * num + den) \div (2 * den)

\* Math.ceil of the rational num/den (den > 0)
MathCeil(num, den) == 0 - ((0 - num) \div den)

\* ------------------------------------------------------------ FlightPath
\* generateDirectionalPoint: from + (sin a, cos a) * distance, snapped to
\* the nearest multiple of BLOCK_SIZE on both axes.  a is in quarter turns.
SinQ(a) == CASE a % 4 = 0 -> 0 [] a % 4 = 1 -> 1 [] a % 4 = 2 -> 0 [] OTHER -> 0 - 1
CosQ(a) == CASE a % 4 = 0 -> 1 [] a % 4 = 1 -> 0 [] a % 4 = 2 -> 0 - 1 [] OTHER -> 0

\* mutant: the direction is not scaled by the distance before the snap
generateDirectionalPoint_unscaled(fromPoint, angle, distance) ==
  <<MathRound(fromPoint[1] + SinQ(angle), BLOCK_SIZE) * BLOCK_SIZE,
    MathRound(fromPoint[2] + CosQ(angle), BLOCK_SIZE) * BLOCK_SIZE>>

generateDirectionalPoint(fromPoint, angle, distance) ==
  LET nx == fromPoint[1] + SinQ(angle) * distance
      nz == fromPoint[2] + CosQ(angle) * distance
  IN  <<MathRound(nx, BLOCK_SIZE) * BLOCK_SIZE,
        MathRound(nz, BLOCK_SIZE) * BLOCK_SIZE>>

\* n more points, each generated from the one before it.  (The set
\* comprehension hands the sequence on as a value, so that it is built once.)
RECURSIVE appendDirectional(_, _, _)
appendDirectional(points, angle, n) ==
  IF n = 0 THEN points
  ELSE CHOOSE extended \in
         {appendDirectional(
            Append(p, generateDirectionalPoint(p[Len(p)], angle,
                                               PATH_SEGMENT_LENGTH)),
            angle, n - 1) : p \in {points}} : TRUE

\* mutant: the last known point is dropped and the path regenerated from
\* the one before it
setFlightDirectionPoints_regenerated(points, angle) ==
  appendDirectional(SubSeq(points, 1, Len(points) - 1), angle, 10)

\* mutant: the 10 points are appended in the heading the path had
setFlightDirectionPoints_oldHeading(points, angle) ==
  appendDirectional(points, flightAngle, 10)

\* setFlightDirection: set the heading, append 10 points in it
setFlightDirectionPoints(points, angle) == appendDirectional(points, angle, 10)

\* updatePathDistances / getTotalDistance: the total is the sum of the
\* segments' Euclidean lengths.  Segments along an axis have whole lengths;
\* the others are kept as squared lengths so that comparisons stay exact.
isAxisSegment(p, q) == p[1] = q[1] \/ p[2] = q[2]

\* summed length of the axis-parallel segments among the first k points
RECURSIVE axisLengthTo(_, _)
axisLengthTo(points, k) ==
  IF k < 2 THEN 0
  ELSE axisLengthTo(points, k - 1)
         + (IF isAxisSegment(points[k - 1], points[k])
            THEN Abs(points[k][1] - points[k - 1][1])
                   + Abs(points[k][2] - points[k - 1][2])
            ELSE 0)

axisLength(points) == axisLengthTo(points, Len(points))

\* squared lengths of the other segments among the first k points
RECURSIVE skewSquaresTo(_, _)
skewSquaresTo(points, k) ==
  IF k < 2 THEN <<>>
  ELSE IF isAxisSegment(points[k - 1], points[k])
       THEN skewSquaresTo(points, k - 1)
       ELSE Append(skewSquaresTo(points, k - 1),
                   (points[k][1] - points[k - 1][1])
                       * (points[k][1] - points[k - 1][1])
                     + (points[k][2] - points[k - 1][2])
                         * (points[k][2] - points[k - 1][2]))

skewSquares(points) == skewSquaresTo(points, Len(points))

\* updatePathDistances: pathDistances[i] is the length of the path up to
\* point i, as <<whole, squares>>: the whole length of its segments along
\* the axes, and the squared lengths of the others
pathDistances(points) ==
  [i \in 1..Len(points) |-> <<axisLengthTo(points, i), skewSquaresTo(points, i)>>]

\* sum of the square roots of sqs < r, for sqs whose entries are all equal
\* (the skew segments of these paths are the initial path's side steps)
sumOfRootsBelow(sqs, r) ==
  IF sqs = <<>> THEN 0 < r
  ELSE r > 0 /\ Len(sqs) * Len(sqs) * sqs[1] < r * r

\* getTotalDistance() - currentDistance < EXTEND_THRESHOLD
nearPathEnd(points, distance) ==
  sumOfRootsBelow(skewSquares(points),
                  EXTEND_THRESHOLD + distance - axisLength(points))

\* mutant: four more points
extendIfNeededByDistance_four(points, angle, distance) ==
  IF nearPathEnd(points, distance) THEN appendDirectional(points, angle, 4)
  ELSE points

\* extendIfNeededByDistance: five more points in the current heading
extendIfNeededByDistance(points, angle, distance) ==
  IF nearPathEnd(points, distance) THEN appendDirectional(points, angle, 5)
  ELSE points

\* --- 32-bit words as <<hi, lo>>, two 16-bit halves (Math.imul, ^, >>>, |)
W16 == 256 * 256

RECURSIVE BitOp16(_, _, _, _)
\* op: "xor" or "or", over n bits of x and y
BitOp16(op, x, y, n) ==
  IF n = 0 THEN 0
  ELSE LET bx == x % 2
           by == y % 2
           b  == IF op = "xor" THEN (bx + by) % 2 ELSE Max(bx, by)
       IN  b + 2 * BitOp16(op, x \div 2, y \div 2, n - 1)

Xor32(a, b) == <<BitOp16("xor", a[1], b[1], 16), BitOp16("xor", a[2], b[2], 16)>>
Or32(a, b) == <<BitOp16("or", a[1], b[1], 16), BitOp16("or", a[2], b[2], 16)>>

Add32(a, b) ==
  LET lo == a[2] + b[2]
  IN  <<(a[1] + b[1] + lo \div W16) % W16, lo % W16>>

RECURSIVE Pow2(_)
Pow2(n) == IF n = 0 THEN 1 ELSE 2 * Pow2(n - 1)

\* a >>> n, for 0 < n < 16
Shr32(a, n) ==
  <<a[1] \div Pow2(n), (a[1] % Pow2(n)) * Pow2(16 - n) + a[2] \div Pow2(n)>>

\* the low 16 bits of x * y, and the whole of x * y as <<hi, lo>>
Mul16Lo(x, y) ==
  ((x % 256) * (y % 256)
     + (((x \div 256) * (y % 256) + (x % 256) * (y \div 256)) % 256) * 256) % W16

Mul16(x, y) ==
  LET x1 == x \div 256
      x0 == x % 256
      y1 == y \div 256
      y0 == y % 256
      m  == x1 * y0 + x0 * y1
      t0 == x0 * y0 + (m % 256) * 256
  IN  <<(x1 * y1 + m \div 256 + t0 \div W16) % W16, t0 % W16>>

\* Math.imul(a, b): the low 32 bits of a * b
Imul32(a, b) ==
  LET ll == Mul16(a[2], b[2])
  IN  <<(ll[1] + Mul16Lo(a[1], b[2]) + Mul16Lo(a[2], b[1])) % W16, ll[2]>>

\* FlightPath.seededRandom (mulberry32), call number k of the session:
\*   t = (seed += 0x6d2b79f5); t = imul(t ^ t >>> 15, t | 1);
\*   t ^= t + imul(t ^ t >>> 7, t | 61); return ((t ^ t >>> 14) >>> 0) / 2^32
\* The result is the 32-bit numerator u of u / 2^32.
PATH_SEED == <<0, 12345>>
SEED_STEP == <<27947, 31221>>

RECURSIVE seedAfter(_)
seedAfter(k) == IF k = 0 THEN PATH_SEED ELSE Add32(seedAfter(k - 1), SEED_STEP)

seededRandom(k) ==
  LET t0 == seedAfter(k)
      t1 == Imul32(Xor32(t0, Shr32(t0, 15)), Or32(t0, <<0, 1>>))
      t2 == Xor32(t1, Add32(t1, Imul32(Xor32(t1, Shr32(t1, 7)), Or32(t1, <<0, 61>>))))
  IN  Xor32(t2, Shr32(t2, 14))

\* u / 2^32 < f, for the thresholds of generateStreetPoint: the largest u
\* below 0.3 * 2^32 is 1288490188, below 0.15 * 2^32 it is 644245094
Below30 == <<19660, 52428>>
Below15 == <<9830, 26214>>
RandomBelow(u, top) == u[1] < top[1] \/ (u[1] = top[1] /\ u[2] <= top[2])

\* generateStreetPoint(hintX, z) on the k-th draw: snap hintX to the street
\* grid, then with probability 0.3 shift one block sideways
generateStreetPoint(hintX, z, k) ==
  LET streetX == MathRound(hintX, BLOCK_SIZE) * BLOCK_SIZE
      random == seededRandom(k)
      x == IF RandomBelow(random, Below30)
           THEN streetX + (IF RandomBelow(random, Below15) THEN 0 - 1 ELSE 1) * BLOCK_SIZE
           ELSE streetX
  IN  <<x, z>>

\* FlightPath.addInitialPoints (the variant that has setFlightDirection):
\* one point every PATH_SEGMENT_LENGTH from z = 0 to EXTEND_AHEAD_DISTANCE,
\* each through generateStreetPoint(0, z).
RECURSIVE addInitialPoints(_, _)
addInitialPoints(points, z) ==
  IF z > EXTEND_AHEAD_DISTANCE THEN points
  ELSE addInitialPoints(Append(points, generateStreetPoint(0, z, Len(points) + 1)),
                        z + PATH_SEGMENT_LENGTH)

\* -------------------------------------------------------- TurnController
\* mutant: the heading is committed as it is, never wrapped
normalizeAngle_none(angle) == angle

\* normalizeAngle: while (a > PI) a -= 2PI; while (a < -PI) a += 2PI
RECURSIVE normalizeAngle(_)
normalizeAngle(angle) ==
  IF angle > 2 THEN normalizeAngle(angle - 4)
  ELSE IF angle < 0 - 2 THEN normalizeAngle(angle + 4)
  ELSE angle

\* direction === 'left' ? Math.PI / 2 : -Math.PI / 2
turnAngleOf(direction) == IF direction = "left" THEN 1 ELSE 0 - 1

\* isPointNearBuilding, on a point <<x, z>> in half units
nearestCenter(c) ==
  MathRound(c - BLOCK_SIZE, 2 * BLOCK_SIZE) * (2 * BLOCK_SIZE) + BLOCK_SIZE

collisionRadius == MAX_BUILDING_WIDTH + 2 * COLLISION_BUFFER

isPointNearBuilding(point) ==
  LET dx == Abs(point[1] - nearestCenter(point[1]))
      dz == Abs(point[2] - nearestCenter(point[2]))
  IN  dx < collisionRadius /\ dz < collisionRadius

\* checkPathClear(startPos, direction, distance): startPos in half units,
\* direction a heading in quarter turns, distance in units
checkInterval == BLOCK_SIZE

checkPoints(startPos, heading, distance) ==
  LET numChecks == MathCeil(2 * distance, checkInterval)
  IN  { <<startPos[1] + SinQ(heading) * Min(i * checkInterval, 2 * distance),
          startPos[2] + CosQ(heading) * Min(i * checkInterval, 2 * distance)>> :
        i \in 0..numChecks }

\* mutant: the test of a sample is negated (a stretch passes when every
\* sample is blocked)
checkPathClear_negated(startPos, heading, distance) ==
  \A p \in checkPoints(startPos, heading, distance) : isPointNearBuilding(p)

checkPathClear(startPos, heading, distance) ==
  \A p \in checkPoints(startPos, heading, distance) : ~isPointNearBuilding(p)

\* the two stretches canTurnSafely samples once it has a position
bothStretchesClear(pos, base, direction) ==
  LET turnDirection == normalizeAngle(base + turnAngleOf(direction))
      postTurnStartPos ==
        <<pos[1] + SinQ(turnDirection) * TURN_CHECK_DISTANCE,
          pos[2] + CosQ(turnDirection) * TURN_CHECK_DISTANCE>>
  IN  /\ checkPathClear(pos, turnDirection, TURN_CHECK_DISTANCE)
      /\ checkPathClear(postTurnStartPos, turnDirection, POST_TURN_CHECK_DISTANCE)

\* mutant: no provider means the turn is refused
canTurnSafely_failClosed(provider, active, pos, base, direction) ==
  IF provider = "null" \/ active THEN FALSE
  ELSE bothStretchesClear(pos, base, direction)

\* mutant: the turn-in-progress test comes before the provider test
canTurnSafely_activeFirst(provider, active, pos, base, direction) ==
  IF active THEN FALSE
  ELSE IF provider = "null" THEN TRUE
  ELSE bothStretchesClear(pos, base, direction)

\* canTurnSafely(direction), in the state given by its arguments
canTurnSafely(provider, active, pos, base, direction) ==
  IF provider = "null" THEN TRUE
  ELSE IF active THEN FALSE
  ELSE bothStretchesClear(pos, base, direction)

\* mutant: executeTurn also refuses while the oracle finds a direction
\* blocked
executeTurnRejects_unlessSafe(ts) ==
  \/ ts.isActive
  \/ \E d \in Directions :
       ~canTurnSafely(positionProvider, ts.isActive, providerPos,
                      currentFlightAngle, d)

\* mutant: executeTurn restarts a turn that is in progress
executeTurnRejects_never(ts) == FALSE

\* executeTurn's early return: a turn is already in progress
executeTurnRejects(ts) == ts.isActive

\* the turn state executeTurn installs
startedTurn(base, direction) ==
  [isActive |-> TRUE, progress |-> 0, direction |-> direction,
   startAngle |-> base, targetAngle |-> base + turnAngleOf(direction)]

\* mutant: the turn completes only once progress exceeds 1
turnComplete_strict(progress) == progress > TURN_DURATION_MS

\* update: progress += deltaTime / TURN_DURATION, and the test progress >= 1
progressAfter_stalled(ts, dt) == ts.progress
progressAfter(ts, dt) == ts.progress + dt
turnComplete(progress) == progress >= TURN_DURATION_MS

\* mutant: the quarter turn is applied a second time on commit
committedAngle_twice(ts) == normalizeAngle(ts.targetAngle + turnAngleOf(ts.direction))

\* update, on completion: the heading that is committed
committedAngle(ts) == normalizeAngle(ts.targetAngle)

isTurning == turnState.isActive
getBaseAngle == currentFlightAngle
getTurnProgress == IF turnState.isActive THEN turnState.progress ELSE 0

\* the provider's answers, in half units: a street crossing, a point on a
\* street line between two crossings, a block centre
ProviderPoints == {<<0, 0>>, <<0, 25>>, <<25, 25>>}

NoOp == [op |-> "none", dir |-> "none", dt |-> 0]

InitialControlPoints == addInitialPoints(<<>>, 0)

\* ---------------------------------------------------- createModelChunk
\* CITY_BLOCK_SIZE: three building slots and the two gaps between them
CITY_BLOCK_SIZE ==
  BUILDINGS_PER_BLOCK * BUILDING_WIDTH + (BUILDINGS_PER_BLOCK - 1) * BUILDING_GAP
\* CHUNK_SIZE: a block and the street along its +X and +Z edges
CHUNK_SIZE == CITY_BLOCK_SIZE + STREET_WIDTH

\* the slots of a block: bx, bz in 0 .. BUILDINGS_PER_BLOCK - 1
BlockSlots == (0..(BUILDINGS_PER_BLOCK - 1)) \X (0..(BUILDINGS_PER_BLOCK - 1))

\* slotCenterX, slotCenterZ: localX + BUILDING_WIDTH / 2, in units
slotCenter(b) == b * (BUILDING_WIDTH + BUILDING_GAP) + BUILDING_WIDTH \div 2

\* What the random generator and the building pool decide for a chunk: the
\* slots left empty and the footprint half-extents <<hx, hz>>, in half units
\* (that is, the scaled width and depth in units).  The scale
\* maxSlotSize / max(width, depth) * (0.7 + random() * 0.2) keeps the longer
\* side in [49, 63) units.
ChunkLayouts ==
  {[skipped |-> {}, extent |-> <<62, 62>>],
   [skipped |-> {<<1, 1>>}, extent |-> <<49, 20>>],
   [skipped |-> BlockSlots, extent |-> <<49, 49>>]}

\* createModelChunk(chunkX, chunkZ): the buildings of the chunk, each with its
\* world centre and half-extents in half units
createModelChunk(chunkX, chunkZ, layout) ==
  [chunkX |-> chunkX, chunkZ |-> chunkZ, built |-> TRUE,
   buildings |->
     {[x |-> 2 * (chunkX * CHUNK_SIZE + slotCenter(slot[1])),
       z |-> 2 * (chunkZ * CHUNK_SIZE + slotCenter(slot[2])),
       hx |-> layout.extent[1], hz |-> layout.extent[2]] :
        slot \in BlockSlots \ layout.skipped}]

\* getChunkCoords: floor(position / CHUNK_SIZE), for a coordinate in half units
chunkCoord(c) == c \div (2 * CHUNK_SIZE)

\* the point lies inside the footprint of one of the buildings
insideFootprint(point, buildings) ==
  \E b \in buildings :
    /\ Abs(point[1] - b.x) <= b.hx
    /\ Abs(point[2] - b.z) <= b.hz

\* the point lies on the street strip of its chunk: past the block, along the
\* chunk's +X or +Z edge
onStreet(point) ==
  \/ point[1] % (2 * CHUNK_SIZE) >= 2 * CITY_BLOCK_SIZE
  \/ point[2] % (2 * CHUNK_SIZE) >= 2 * CITY_BLOCK_SIZE

\* chunk coordinates chunks are built for, and the points put to the oracle
\* within a chunk: a slot centre, the gap between two slots, the edge of the
\* block, the edge and the middle of the street (half units)
ChunkRange == 0..1
LocalProbes == {0, 100, 230, 620, 720, 900}
WorldProbes ==
  {<<2 * CHUNK_SIZE * cx + lx, 2 * CHUNK_SIZE * cz + lz>> :
     cx \in ChunkRange, cz \in ChunkRange, lx \in LocalProbes, lz \in LocalProbes}

WorldInit ==
  /\ worldChunk = [chunkX |-> 0, chunkZ |-> 0, built |-> FALSE, buildings |-> {}]
  /\ probe = <<>>
  /\ probeBlocked = FALSE

\* main.ts before its page is used
LoopInit ==
  /\ started = FALSE
  /\ frameCalls = <<>>
  /\ poolLoaded = FALSE
  /\ loadedAround = 0 - 1
  /\ analyserNode = "null"

\* ------------------------------- FlightPath built of straight segments
\* BLOCK_WITH_STREET: a block and the street beside it
BLOCK_WITH_STREET == CITY_BLOCK_SIZE + STREET_WIDTH

\* getStreetCenter(streetIndex)
getStreetCenter(streetIndex) ==
  streetIndex * BLOCK_WITH_STREET + CITY_BLOCK_SIZE + STREET_WIDTH \div 2

\* the crossing of street street[1] along x with street street[2] along z
streetPoint(street) ==
  <<getStreetCenter(street[1]), getStreetCenter(street[2])>>

\* generateNextPoint: one street on, by the quadrant of the heading
nextStreet(street, angle) ==
  CASE angle % 4 = 0 -> <<street[1], street[2] + 1>>
    [] angle % 4 = 1 -> <<street[1] + 1, street[2]>>
    [] angle % 4 = 2 -> <<street[1], street[2] - 1>>
    [] OTHER -> <<street[1] - 1, street[2]>>

\* n calls of generateNextPoint, each point pushed; path is
\* [points |-> controlPoints, street |-> <<currentStreetX, currentStreetZ>>]
RECURSIVE generateNextPoints(_, _, _)
generateNextPoints(path, angle, n) ==
  IF n = 0 THEN path
  ELSE CHOOSE longer \in
         {[points |-> Append(prev.points,
                             streetPoint(nextStreet(prev.street, angle))),
           street |-> nextStreet(prev.street, angle)] :
            prev \in {generateNextPoints(path, angle, n - 1)}} : TRUE

\* addInitialPoints: the crossing of streets 0 and 0, and
\* ceil(EXTEND_AHEAD_DISTANCE / BLOCK_WITH_STREET) + 1 crossings ahead of it
\* along +Z
segmentsInitialPath ==
  generateNextPoints([points |-> <<streetPoint(<<0, 0>>)>>, street |-> <<0, 0>>],
                     0, MathCeil(EXTEND_AHEAD_DISTANCE, BLOCK_WITH_STREET) + 1)

\* updateDistances: cumulativeDistances[i] is the length of the path up to
\* point i (every segment of this path runs along an axis)
RECURSIVE cumulativeFrom(_, _)
cumulativeFrom(points, table) ==
  IF Len(table) = Len(points) THEN table
  ELSE CHOOSE whole \in
         {cumulativeFrom(p, longer) :
            p \in {points},
            longer \in {Append(table,
                               table[Len(table)]
                                 + Abs(points[Len(table) + 1][1]
                                         - points[Len(table)][1])
                                 + Abs(points[Len(table) + 1][2]
                                         - points[Len(table)][2]))}} : TRUE

cumulativeDistances(points) == cumulativeFrom(points, <<0>>)

\* extendIfNeededByDistance, extending already with EXTEND_THRESHOLD left
segmentsExtendIfNeeded_atThreshold(path, angle, distance) ==
  IF axisLength(path.points) - distance <= EXTEND_THRESHOLD
  THEN generateNextPoints(path, angle, 5)
  ELSE path

\* extendIfNeededByDistance: five more points when less than
\* EXTEND_THRESHOLD of path is left
segmentsExtendIfNeeded(path, angle, distance) ==
  IF axisLength(path.points) - distance < EXTEND_THRESHOLD
  THEN generateNextPoints(path, angle, 5)
  ELSE path

\* Positions returned by getPositionAtDistance are kept in sixteenths of a
\* unit: <<16 x, 16 z>>.
exactly(point) == <<16 * point[1], 16 * point[2]>>

\* the loop of getPositionAtDistance, from i on: the first i with
\* distance < cumulativeDistances[i] gives segment i - 1, and segment 0 is
\* kept if there is none (segments and points are counted from 1 here)
RECURSIVE segmentIndexOf(_, _, _)
segmentIndexOf(cumulative, distance, i) ==
  IF i > Len(cumulative) THEN 1
  ELSE IF distance < cumulative[i] THEN i - 1
  ELSE segmentIndexOf(cumulative, distance, i + 1)

\* getPositionAtDistance of the segments path: the ends are clamped, in
\* between lerpVectors(p1, p2, (distance - segmentStart) / segmentLength)
getPositionAtDistance(points, distance) ==
  CHOOSE position \in
    {LET totalLength == cumulative[Len(cumulative)]
         k == segmentIndexOf(cumulative, distance, 2)
         segmentLength == cumulative[k + 1] - cumulative[k]
         along == distance - cumulative[k]
         p1 == points[k]
         p2 == points[k + 1]
     IN  IF distance <= 0 THEN exactly(points[1])
         ELSE IF distance >= totalLength THEN exactly(points[Len(points)])
         ELSE <<16 * p1[1] + (16 * (p2[1] - p1[1]) * along) \div segmentLength,
                16 * p1[2] + (16 * (p2[2] - p1[2]) * along) \div segmentLength>> :
       cumulative \in {cumulativeDistances(points)}} : TRUE

\* the loop of getTangentAtDistance, from i on: the first i with
\* distance < cumulativeDistances[i] gives segment i - 1, and the last
\* segment is taken if there is none
RECURSIVE tangentSegmentOf(_, _, _)
tangentSegmentOf(cumulative, distance, i) ==
  IF i > Len(cumulative) THEN Len(cumulative) - 1
  ELSE IF distance < cumulative[i] THEN i - 1
  ELSE tangentSegmentOf(cumulative, distance, i + 1)

\* getTangentAtDistance of the segments path: subVectors(p2, p1).normalize(),
\* a unit vector along an axis since every segment of this path runs along
\* one
getTangentAtDistance(points, distance) ==
  IF Len(points) < 2 THEN <<0, 1>>
  ELSE CHOOSE tangent \in
         {LET k == Min(tangentSegmentOf(cumulative, distance, 2),
                       Len(points) - 1)
              d == <<points[k + 1][1] - points[k][1],
                     points[k + 1][2] - points[k][2]>>
          IN  <<d[1] \div (Abs(d[1]) + Abs(d[2])),
                d[2] \div (Abs(d[1]) + Abs(d[2]))>> :
            cumulative \in {cumulativeDistances(points)}} : TRUE

\* how far past a control point the distances asked for lie
LookupOffsets == <<0, 135, 400>>

\* how a distance asked for lies to the path
DistanceClasses == {"zero", "inside", "total", "beyond"}

classOf(points, distance) ==
  IF distance <= 0 THEN "zero"
  ELSE IF distance < axisLength(points) THEN "inside"
  ELSE IF distance = axisLength(points) THEN "total"
  ELSE "beyond"

\* ------------------------------------- the spline FlightPath's positions
\* The spline FlightPath reads its positions off a CatmullRomCurve3 through
\* the control points.  Span i of the curve runs from points[i] to
\* points[i + 1] and is shaped by the points before and after them; beyond
\* the ends of the path the curve takes the end points mirrored.
spanShape(points, i) ==
  <<IF i > 1 THEN points[i - 1]
    ELSE <<2 * points[1][1] - points[2][1], 2 * points[1][2] - points[2][2]>>,
    points[i],
    points[i + 1],
    IF i + 2 <= Len(points) THEN points[i + 2]
    ELSE <<2 * points[i + 1][1] - points[i][1],
           2 * points[i + 1][2] - points[i][2]>> >>

squaredLength(p, q) ==
  (q[1] - p[1]) * (q[1] - p[1]) + (q[2] - p[2]) * (q[2] - p[2])

\* The centripetal curve weighs a span by the roots of its three chords'
\* lengths.  Where the chords are equally long the weights cancel and the
\* span is the cubic c0 + c1 w + c2 w^2 + c3 w^3 with c0 = p1,
\* c1 = (p2 - p0) / 2, c2 = 3 (p2 - p1) - 2 c1 - (p3 - p1) / 2 and
\* c3 = 2 (p1 - p2) + c1 + (p3 - p1) / 2: an exact value.
evenSpan(points, i) ==
  LET shape == spanShape(points, i)
  IN  /\ squaredLength(shape[1], shape[2]) = squaredLength(shape[2], shape[3])
      /\ squaredLength(shape[3], shape[4]) = squaredLength(shape[2], shape[3])

\* the point of an even span at w = 1/2, in sixteenths
midSpan(points, i) ==
  LET shape == spanShape(points, i)
      half(c) == 9 * (shape[2][c] + shape[3][c]) - shape[1][c] - shape[4][c]
  IN  <<half(1), half(2)>>

\* curve.getPoint(h / (2 (n - 1))) of a path of n points: control point
\* h / 2 + 1 for an even h, the middle of span (h + 1) / 2 for an odd one
getPositionAt(points, h) ==
  IF h % 2 = 0 THEN exactly(points[h \div 2 + 1])
  ELSE midSpan(points, (h + 1) \div 2)

\* distanceToT clamps distance / total to [0, 1]; curve.getPointAt then
\* turns that share of the curve's length into a curve parameter by its
\* table of arc lengths: 0 into 0, 1 into 1, and the shares in between
\* into every parameter in between, in order.  These are the parameters,
\* among those with an exact point, that the distances of a class are
\* turned into.
curveParameters(points, where) ==
  LET last == 2 * (Len(points) - 1)
  IN  CASE where = "zero" -> {0}
        [] where \in {"total", "beyond"} -> {last}
        [] OTHER -> {h \in 1..(last - 1) :
                       h % 2 = 0 \/ evenSpan(points, (h + 1) \div 2)}

\* ------------------------------------------------------- beat detector
\* Averages, ratios and intensities are rationals <<numerator, denominator>>
\* with a positive denominator, kept in lowest terms.
RECURSIVE GCD(_, _)
GCD(a, b) == IF b = 0 THEN a ELSE GCD(b, a % b)

Rat(n, d) ==
  LET g == GCD(Abs(n), Abs(d))
      sign == IF d < 0 THEN 0 - 1 ELSE 1
  IN  <<(sign * n) \div g, (sign * d) \div g>>

RatLess(a, b) == a[1] * b[2] < b[1] * a[2]
RatSub(a, b) == Rat(a[1] * b[2] - b[1] * a[2], a[2] * b[2])
RatMul(a, b) == Rat(a[1] * b[1], a[2] * b[2])
RatDiv(a, b) == Rat(a[1] * b[2], a[2] * b[1])
RatMin(a, b) == IF RatLess(b, a) THEN b ELSE a
RatMax(a, b) == IF RatLess(a, b) THEN b ELSE a
RatOfInt(n) == <<n, 1>>

BEAT_THRESHOLD == <<3, 2>>
TRANSITION_THRESHOLD == <<2, 1>>
HEAVY_BEAT_THRESHOLD == <<5, 2>>
HEAVY_BEAT_LOW_ENERGY_FACTOR == <<1, 2>>

\* sum of the entries from..to of a sequence of numbers
RECURSIVE sumRange(_, _, _)
sumRange(h, from, to) ==
  IF to < from THEN 0 ELSE h[to] + sumRange(h, from, to - 1)

\* mutant: the bins of the band are summed, not averaged
getKickEnergy_sum(data) ==
  IF Len(data) = 0 THEN 0
  ELSE LET startBin == (60 * FFT_SIZE) \div SAMPLE_RATE
           endBin == MathCeil(150 * FFT_SIZE, SAMPLE_RATE)
           start == Max(0, Min(startBin, Len(data) - 1))
           end == Max(start + 1, Min(endBin, Len(data)))
       IN  sumRange(data, start + 1, end)

\* getKickEnergy: the mean of the bins of the 60-150 Hz range; 0 without data.
\* (The snapshots used are level across the bins, so the mean is whole.)
getKickEnergy(data) ==
  IF Len(data) = 0 THEN 0
  ELSE LET startBin == (60 * FFT_SIZE) \div SAMPLE_RATE
           endBin == MathCeil(150 * FFT_SIZE, SAMPLE_RATE)
           start == Max(0, Min(startBin, Len(data) - 1))
           end == Max(start + 1, Min(endBin, Len(data)))
       IN  sumRange(data, start + 1, end) \div (end - start)

\* mutant: the newest sample is the one dropped from a full window
pushWindow_keepOldest(h, v, size) ==
  IF Len(h) + 1 > size THEN h ELSE Append(h, v)

\* history.push(v); if (history.length > size) history.shift()
pushWindow(h, v, size) ==
  IF Len(h) + 1 > size THEN Tail(Append(h, v)) ELSE Append(h, v)

\* getRollingAverage / getLongTermAverage: sum / length, 0 when empty
getRollingAverage(h) ==
  IF Len(h) = 0 THEN <<0, 1>> ELSE Rat(sumRange(h, 1, Len(h)), Len(h))

getLongTermAverage(h) ==
  IF Len(h) = 0 THEN <<0, 1>> ELSE Rat(sumRange(h, 1, Len(h)), Len(h))

\* getRecentAverage: the mean of the last 30 samples, 0 with fewer
getRecentAverage(h) ==
  IF Len(h) < RECENT_SIZE THEN <<0, 1>>
  ELSE Rat(sumRange(h, Len(h) - RECENT_SIZE + 1, Len(h)), RECENT_SIZE)

\* the decay of a frame without a beat, taking a twenty-fifth instead
decayBeatIntensity_slow(intensity) ==
  RatMax(RatOfInt(0), RatSub(intensity, <<1, 25>>))

\* currentBeatIntensity = Math.max(0, currentBeatIntensity - 0.05)
decayBeatIntensity(intensity) ==
  RatMax(RatOfInt(0), RatSub(intensity, <<1, 20>>))

\* mutant: the intensity is not clamped
spikeIntensity_unclamped(energy, average, threshold) ==
  RatMul(RatSub(RatDiv(RatOfInt(energy), RatMul(average, threshold)),
                RatOfInt(1)),
         RatOfInt(2))

\* Math.min(1, Math.max(0, rawIntensity * 2)) for
\* rawIntensity = energy / (average * threshold) - 1
spikeIntensity(energy, average, threshold) ==
  LET raw == RatSub(RatDiv(RatOfInt(energy), RatMul(average, threshold)),
                    RatOfInt(1))
  IN  RatMin(RatOfInt(1), RatMax(RatOfInt(0), RatMul(raw, RatOfInt(2))))

NoEvent == [fires |-> FALSE, intensity |-> <<0, 1>>]

\* checkForTransition, on the long history after the push
checkForTransition(history, time, lastTime) ==
  IF Len(history) < TRANSITION_HISTORY_SIZE THEN NoEvent
  ELSE IF time - lastTime < MIN_TRANSITION_INTERVAL_MS THEN NoEvent
  ELSE LET longTermAverage == getLongTermAverage(history)
           recentAverage == getRecentAverage(history)
       IN  IF RatLess(longTermAverage, RatOfInt(15)) THEN NoEvent
           ELSE LET energyRatio == RatDiv(recentAverage, longTermAverage)
                    half == RatDiv(RatOfInt(1), TRANSITION_THRESHOLD)
                    transitionIntensity ==
                      IF RatLess(TRANSITION_THRESHOLD, energyRatio)
                      THEN RatMin(RatOfInt(1),
                                  RatDiv(RatSub(energyRatio, TRANSITION_THRESHOLD),
                                         TRANSITION_THRESHOLD))
                      ELSE IF RatLess(energyRatio, half)
                      THEN IF energyRatio[1] = 0 THEN RatOfInt(1)
                           ELSE RatMin(RatOfInt(1),
                                       RatDiv(RatSub(RatDiv(RatOfInt(1), energyRatio),
                                                     TRANSITION_THRESHOLD),
                                              TRANSITION_THRESHOLD))
                      ELSE RatOfInt(0)
                IN  [fires |-> RatLess(<<1, 5>>, transitionIntensity),
                     intensity |-> transitionIntensity]

\* mutant: the quiet before the spike is not asked for
detectHeavyBeatShift_ungated(history, currentEnergy, time, lastTime) ==
  LET rollingAverage == getRollingAverage(history)
  IN  IF Len(history) < HEAVY_BEAT_PRE_SILENCE_FRAMES + 5 THEN NoEvent
      ELSE IF time - lastTime < MIN_HEAVY_BEAT_INTERVAL_MS THEN NoEvent
      ELSE IF RatLess(rollingAverage, RatOfInt(10)) THEN NoEvent
      ELSE IF ~RatLess(RatMul(rollingAverage, HEAVY_BEAT_THRESHOLD),
                       RatOfInt(currentEnergy)) THEN NoEvent
      ELSE [fires |-> TRUE,
            intensity |-> spikeIntensity(currentEnergy, rollingAverage,
                                         HEAVY_BEAT_THRESHOLD)]

\* detectHeavyBeatShift, on the short history after the push
detectHeavyBeatShift(history, currentEnergy, time, lastTime) ==
  LET rollingAverage == getRollingAverage(history)
      preSilenceStartIndex ==
        Max(0, Len(history) - HEAVY_BEAT_PRE_SILENCE_FRAMES - 1)
      preSilenceEndIndex == Len(history) - 1
      preSilenceCount == preSilenceEndIndex - preSilenceStartIndex
      preSilenceAverage ==
        Rat(sumRange(history, preSilenceStartIndex + 1, preSilenceEndIndex),
            preSilenceCount)
      lowEnergyThreshold == RatMul(rollingAverage, HEAVY_BEAT_LOW_ENERGY_FACTOR)
  IN  IF Len(history) < HEAVY_BEAT_PRE_SILENCE_FRAMES + 5 THEN NoEvent
      ELSE IF time - lastTime < MIN_HEAVY_BEAT_INTERVAL_MS THEN NoEvent
      ELSE IF RatLess(rollingAverage, RatOfInt(10)) THEN NoEvent
      ELSE IF ~RatLess(RatMul(rollingAverage, HEAVY_BEAT_THRESHOLD),
                       RatOfInt(currentEnergy)) THEN NoEvent
      ELSE IF preSilenceCount = 0 THEN NoEvent
      ELSE IF ~RatLess(preSilenceAverage, lowEnergyThreshold) THEN NoEvent
      ELSE [fires |-> TRUE,
            intensity |-> spikeIntensity(currentEnergy, rollingAverage,
                                         HEAVY_BEAT_THRESHOLD)]

\* mutant: a heavy shift in the frame takes the place of the beat
beatDetected_unlessHeavy(rollingAverage, currentEnergy, time, lastTime) ==
  /\ RatLess(RatOfInt(10), rollingAverage)
  /\ RatLess(RatMul(rollingAverage, BEAT_THRESHOLD), RatOfInt(currentEnergy))
  /\ time - lastTime > MIN_BEAT_INTERVAL_MS
  /\ lastHeavyBeatShiftTime' # time

\* mutant: the beat test has no floor on the average
beatDetected_noFloor(rollingAverage, currentEnergy, time, lastTime) ==
  /\ RatLess(RatMul(rollingAverage, BEAT_THRESHOLD), RatOfInt(currentEnergy))
  /\ time - lastTime > MIN_BEAT_INTERVAL_MS

\* the beat test of updateBeatDetection, on the average taken before the push
beatDetected(rollingAverage, currentEnergy, time, lastTime) ==
  /\ RatLess(RatOfInt(10), rollingAverage)
  /\ RatLess(RatMul(rollingAverage, BEAT_THRESHOLD), RatOfInt(currentEnergy))
  /\ time - lastTime > MIN_BEAT_INTERVAL_MS

\* the callbacks called last subscribed first
eventCalls_lastFirst(event, callbacks, intensity) ==
  [i \in 1..Len(callbacks) |->
     <<event, callbacks[Len(callbacks) + 1 - i], intensity>>]

\* the callbacks of a list, each invoked with the intensity of an event
eventCalls(event, callbacks, intensity) ==
  [i \in 1..Len(callbacks) |-> <<event, callbacks[i], intensity>>]

\* the analyser's data: none before it is set up, else level at some byte
FrequencySnapshots ==
  {<<>>} \cup {[i \in 1..FrequencyBins |-> level] : level \in {30, 200}}

BeatCallbackIds == {"cbA"}
\* time between two calls of updateBeatDetection, in ms
BeatFrameSteps == {16}

\* the three kinds of event the detector notifies
EventKinds == {"beat", "heavyBeatShift", "transition"}

\* nothing has fired: -1 for the time of the last firing of each kind
NoLog == [kind \in EventKinds |-> 0 - 1]

\* the log after a frame in which the kind fired (or did not)
logged(log, kind, fired, time) ==
  IF fired THEN [log EXCEPT ![kind] = time] ELSE log

\* The audio played, as runs <<level, frames>> of the kick-band level,
\* repeated from the start when the runs are used up.  Level -1: the analyser
\* is not set up and hands out an empty array.
RECURSIVE runLevel(_, _, _)
runLevel(runs, i, k) ==
  IF k < runs[i][2] THEN runs[i][1] ELSE runLevel(runs, i + 1, k - runs[i][2])

RECURSIVE runFrames(_, _)
runFrames(runs, i) == IF i = 0 THEN 0 ELSE runs[i][2] + runFrames(runs, i - 1)

\* the level of the k-th frame (k = 1, 2, ...)
levelAt(runs, k) == runLevel(runs, 1, (k - 1) % runFrames(runs, Len(runs)))

\* getFrequencyData: what getByteFrequencyData leaves in the array
snapshotOf(level) ==
  IF level < 0 THEN <<>> ELSE [i \in 1..FrequencyBins |-> level]

\* a session: the audio and the pace of the frames (requestAnimationFrame)
Sessions ==
  {[track |-> << <<0 - 1, 1>> >>, pace |-> 50],
   [track |-> << <<0, 1>> >>, pace |-> 200],
   [track |-> << <<5, 50>>, <<60, 1>>, <<8, 200>> >>, pace |-> 16],
   [track |-> << <<5, 50>>, <<60, 1>>, <<8, 200>> >>, pace |-> 17],
   [track |-> << <<255, 1>>, <<5, 42>>, <<17, 1>>, <<5, 200>> >>, pace |-> 50],
   [track |-> << <<0, 16>>, <<255, 1>> >>, pace |-> 50],
   [track |-> << <<100, 10>>, <<0, 12>>, <<255, 1>>, <<0, 12>> >>, pace |-> 200],
   [track |-> << <<30, 12>>, <<255, 1>> >>, pace |-> 50],
   [track |-> << <<30, 30>>, <<255, 30>> >>, pace |-> 50],
   [track |-> << <<255, 10>>, <<0, 30>> >>, pace |-> 200],
   [track |-> << <<0, 90>>, <<255, 30>> >>, pace |-> 200]}

DetectorInit ==
  /\ frequencyData = <<>>
  /\ now = 0
  /\ energyHistory = <<>>
  /\ longTermEnergyHistory = <<>>
  /\ lastBeatTime = 0
  /\ lastTransitionTime = 0
  /\ lastHeavyBeatShiftTime = 0
  /\ currentBeatIntensity = <<0, 1>>
  /\ beatRet = FALSE
  /\ beatNotified = <<>>
  /\ pushed = <<>>
  /\ frames = 0
  /\ resets = 0
  /\ eventLog = NoLog

\* the module beatDetector when it is loaded
BeatStateInit ==
  /\ DetectorInit
  /\ beatCallbacks = <<>>
  /\ transitionCallbacks = <<>>
  /\ heavyBeatShiftCallbacks = <<>>

\* no audio is loaded
BeatInit ==
  /\ BeatStateInit
  /\ track = <<>>
  /\ pace = 0

NoLookup == [where |-> "none", at |-> 0, position |-> <<0, 0>>]

\* new TurnController(flightPath), but for the path it is given
TurnStateInit ==
  /\ turnState = [isActive |-> FALSE, progress |-> 0, direction |-> "left",
                  startAngle |-> 0, targetAngle |-> 0]
  /\ currentFlightAngle = 0
  /\ turnCompleteCallbacks = <<>>
  /\ providerPos = <<0, 0>>
  /\ lastOp = NoOp
  /\ ret = FALSE
  /\ notified = <<>>
  /\ sinceTurn = 0
  /\ fixed16 = TRUE
  /\ turnsStarted = 0

\* new FlightPath() of the spline build, and new TurnController(flightPath)
TurnInit ==
  /\ TurnStateInit
  /\ pathKind = "spline"
  /\ flightAngle = 0
  /\ controlPoints = InitialControlPoints
  /\ currentStreet = <<0, 0>>
  /\ lookup = NoLookup

\* new CameraController(camera), but for its subscribers
CameraStateInit ==
  /\ currentDistance = 0
  /\ currentZ = 0
  /\ baseSpeed = DEFAULT_BASE_SPEED
  /\ currentSpeed = DEFAULT_BASE_SPEED
  /\ perspectiveMode = "first-person"
  /\ perspectiveTransitionProgress = TRANSITION_DURATION_MS
  /\ thirdPersonTimer = 0
  /\ timeInThirdPerson = 0
  /\ isTransitioning = FALSE
  /\ targetPerspective = "first-person"
  /\ perspectiveNotified = <<>>
  /\ switchesIssued = 0

\* new CameraController(camera)
CameraInit == CameraStateInit /\ perspectiveChangeCallbacks = <<>>

\* new TurnController(new FlightPath()): no position provider yet
InitTurn ==
  TurnInit /\ CameraInit /\ WorldInit /\ LoopInit /\ BeatInit /\ positionProvider = "null"

\* new CameraController(camera): its constructor hands the turn controller
\* a position provider
InitCamera ==
  TurnInit /\ CameraInit /\ WorldInit /\ LoopInit /\ BeatInit /\ positionProvider = "set"

\* TurnController.setPositionProvider(provider)
SetPositionProvider(p) ==
  /\ positionProvider' = "set"
  /\ providerPos' = p
  /\ lastOp' = [NoOp EXCEPT !.op = "setPositionProvider"]
  /\ UNCHANGED <<turnState, currentFlightAngle, turnCompleteCallbacks,
                 flightAngle, controlPoints, ret, notified, sinceTurn,
                 fixed16, turnsStarted, cameraVars>>
  /\ UNCHANGED <<worldVars, beatVars, pathVars, loopVars>>

\* TurnController.executeTurn(direction)
ExecuteTurn(direction) ==
  /\ lastOp' = [NoOp EXCEPT !.op = "executeTurn", !.dir = direction]
  /\ IF executeTurnRejects(turnState)
     THEN /\ ret' = FALSE
          /\ UNCHANGED <<turnState, sinceTurn, fixed16, turnsStarted>>
     ELSE /\ turnsStarted < MaxTurns
          /\ turnState' = startedTurn(currentFlightAngle, direction)
          /\ ret' = TRUE
          /\ sinceTurn' = 0
          /\ fixed16' = TRUE
          /\ turnsStarted' = turnsStarted + 1
  /\ UNCHANGED <<currentFlightAngle, turnCompleteCallbacks, positionProvider,
                 providerPos, flightAngle, controlPoints, notified, cameraVars>>
  /\ UNCHANGED <<worldVars, beatVars, pathVars, loopVars>>

\* mutant: the completed turn is left active
completedTurn_stillActive(ts) == [ts EXCEPT !.progress = TURN_DURATION_MS]

\* progress = 1 and isActive = false, when the turn completes
completedTurn(ts) ==
  [ts EXCEPT !.progress = TURN_DURATION_MS, !.isActive = FALSE]

\* the direction a reentrant subscriber asks executeTurn for
requestedTurn(cb) == IF cb = "againLeft" THEN "left" ELSE "right"

\* the loop over turnCompleteCallbacks in update: each callback is handed
\* this.turnState.direction, read when its turn in the loop comes, and a
\* reentrant subscriber then calls executeTurn, which works on the same
\* turnState and on the committed angle base.  Gives the calls made and
\* the turn state the loop leaves.
RECURSIVE notifyTurnComplete(_, _, _, _)
notifyTurnComplete(callbacks, ts, base, calls) ==
  IF callbacks = <<>> THEN [turnState |-> ts, calls |-> calls]
  ELSE notifyTurnComplete(
         Tail(callbacks),
         IF Head(callbacks) \in ReentrantIds /\ ~executeTurnRejects(ts)
         THEN startedTurn(base, requestedTurn(Head(callbacks)))
         ELSE ts,
         base,
         Append(calls, <<Head(callbacks), ts.direction>>))

\* the body of TurnController.update(deltaTime), run on a flight path whose
\* control points are points
turnControllerUpdate(dt, points) ==
  IF ~turnState.isActive
  THEN /\ ret' = FALSE
       /\ notified' = <<>>
       /\ controlPoints' = points
       /\ UNCHANGED <<turnState, currentFlightAngle, flightAngle, sinceTurn,
                      fixed16, turnsStarted>>
  ELSE IF turnComplete(progressAfter(turnState, dt))
  THEN LET after == notifyTurnComplete(turnCompleteCallbacks,
                                       completedTurn(turnState),
                                       committedAngle(turnState), <<>>)
       IN  /\ turnState' = after.turnState
           /\ currentFlightAngle' = committedAngle(turnState)
           /\ notified' = after.calls
           /\ flightAngle' = committedAngle(turnState)
           /\ controlPoints' =
                setFlightDirectionPoints(points, committedAngle(turnState))
           /\ ret' = FALSE
           /\ IF after.turnState.isActive /\ after.turnState.progress = 0
              THEN /\ sinceTurn' = 0
                   /\ fixed16' = TRUE
                   /\ turnsStarted' = turnsStarted + 1
              ELSE /\ sinceTurn' = sinceTurn + dt
                   /\ fixed16' = (fixed16 /\ dt = 16)
                   /\ turnsStarted' = turnsStarted
  ELSE /\ turnState' = [turnState EXCEPT
                          !.progress = progressAfter(turnState, dt)]
       /\ sinceTurn' = sinceTurn + dt
       /\ fixed16' = (fixed16 /\ dt = 16)
       /\ notified' = <<>>
       /\ ret' = TRUE
       /\ controlPoints' = points
       /\ UNCHANGED <<currentFlightAngle, flightAngle, turnsStarted>>

\* TurnController.update(deltaTime)
Update(dt) ==
  /\ lastOp' = [NoOp EXCEPT !.op = "update"]
  /\ turnControllerUpdate(dt, controlPoints)
  /\ UNCHANGED <<turnCompleteCallbacks, positionProvider, providerPos,
                 turnsStarted, cameraVars>>
  /\ UNCHANGED <<worldVars, beatVars, pathVars, loopVars>>

\* TurnController.onTurnComplete(callback)
OnTurnComplete(cb) ==
  /\ Len(turnCompleteCallbacks) < MaxCallbacks
  /\ turnCompleteCallbacks' = Append(turnCompleteCallbacks, cb)
  /\ lastOp' = [NoOp EXCEPT !.op = "onTurnComplete"]
  /\ UNCHANGED <<turnState, currentFlightAngle, positionProvider, providerPos,
                 flightAngle, controlPoints, ret, notified, sinceTurn, fixed16,
                 turnsStarted, cameraVars>>
  /\ UNCHANGED <<worldVars, beatVars, pathVars, loopVars>>

\* TurnController.offTurnComplete(callback)
OffTurnComplete(cb) ==
  /\ turnCompleteCallbacks' = SelectSeq(turnCompleteCallbacks, LAMBDA c : c # cb)
  /\ lastOp' = [NoOp EXCEPT !.op = "offTurnComplete"]
  /\ UNCHANGED <<turnState, currentFlightAngle, positionProvider, providerPos,
                 flightAngle, controlPoints, ret, notified, sinceTurn, fixed16,
                 turnsStarted, cameraVars>>
  /\ UNCHANGED <<worldVars, beatVars, pathVars, loopVars>>

\* TurnController.canTurnSafely(direction)
CanTurnSafely(direction) ==
  /\ ret' = canTurnSafely(positionProvider, turnState.isActive, providerPos,
                          currentFlightAngle, direction)
  /\ lastOp' = [NoOp EXCEPT !.op = "canTurnSafely", !.dir = direction]
  /\ UNCHANGED <<turnState, currentFlightAngle, turnCompleteCallbacks,
                 positionProvider, providerPos, flightAngle, controlPoints,
                 notified, sinceTurn, fixed16, turnsStarted, cameraVars>>
  /\ UNCHANGED <<worldVars, beatVars, pathVars, loopVars>>

NextTurn ==
  \/ \E p \in ProviderPoints : SetPositionProvider(p)
  \/ \E d \in Directions : ExecuteTurn(d)
  \/ \E dt \in FrameSteps : Update(dt)
  \/ \E cb \in CallbackIds : OnTurnComplete(cb)
  \/ \E cb \in CallbackIds : OffTurnComplete(cb)
  \/ \E d \in Directions : CanTurnSafely(d)

SpecTurn == InitTurn /\ [][NextTurn]_vars

\* ------------------------------------- subscribers that call executeTurn
\* TurnController.update(deltaTime) with subscribers that may start a turn
\* from inside the callback
ReentryUpdate(dt) ==
  /\ lastOp' = [NoOp EXCEPT !.op = "update"]
  /\ turnControllerUpdate(dt, controlPoints)
  /\ turnsStarted' <= MaxTurns
  /\ UNCHANGED <<turnCompleteCallbacks, positionProvider, providerPos,
                 cameraVars>>
  /\ UNCHANGED <<worldVars, beatVars, pathVars, loopVars>>

\* TurnController.onTurnComplete(callback), the callback one that may call
\* executeTurn
ReentryOnTurnComplete(cb) ==
  /\ Len(turnCompleteCallbacks) < MaxReentry
  /\ turnCompleteCallbacks' = Append(turnCompleteCallbacks, cb)
  /\ lastOp' = [NoOp EXCEPT !.op = "onTurnComplete"]
  /\ UNCHANGED <<turnState, currentFlightAngle, positionProvider, providerPos,
                 flightAngle, controlPoints, ret, notified, sinceTurn, fixed16,
                 turnsStarted, cameraVars>>
  /\ UNCHANGED <<worldVars, beatVars, pathVars, loopVars>>

NextReentry ==
  \/ \E d \in Directions : ExecuteTurn(d)
  \/ \E dt \in FrameSteps : ReentryUpdate(dt)
  \/ \E cb \in {"cbA"} \cup ReentrantIds : ReentryOnTurnComplete(cb)

SpecReentry == InitTurn /\ [][NextReentry]_vars

\* ------------------------------------------------------ CameraController
\* the perspective callbacks, each invoked with mode, in subscription order
perspectiveCalls(mode) ==
  [i \in 1..Len(perspectiveChangeCallbacks) |->
     <<perspectiveChangeCallbacks[i], mode>>]

\* CameraController.setSpeed(speed)
SetSpeed(speed) ==
  /\ baseSpeed' = speed
  /\ currentSpeed' = speed
  /\ perspectiveNotified' = <<>>
  /\ UNCHANGED <<turnState, currentFlightAngle, turnCompleteCallbacks,
                 positionProvider, providerPos, flightAngle, controlPoints,
                 lastOp, ret, notified, sinceTurn, fixed16, turnsStarted>>
  /\ UNCHANGED <<currentDistance, currentZ, perspectiveMode,
                 perspectiveTransitionProgress, thirdPersonTimer,
                 timeInThirdPerson,
                 isTransitioning, targetPerspective,
                 perspectiveChangeCallbacks, switchesIssued>>
  /\ UNCHANGED <<worldVars, beatVars, pathVars, loopVars>>

\* boostSpeed multiplying the current speed instead of the base speed
BoostSpeed_compounding(multiplier) ==
  /\ currentSpeed' = (currentSpeed * multiplier[1]) \div multiplier[2]
  /\ perspectiveNotified' = <<>>
  /\ UNCHANGED <<turnState, currentFlightAngle, turnCompleteCallbacks,
                 positionProvider, providerPos, flightAngle, controlPoints,
                 lastOp, ret, notified, sinceTurn, fixed16, turnsStarted>>
  /\ UNCHANGED <<currentDistance, currentZ, baseSpeed, perspectiveMode,
                 perspectiveTransitionProgress, thirdPersonTimer,
                 timeInThirdPerson, isTransitioning, targetPerspective,
                 perspectiveChangeCallbacks, switchesIssued>>
  /\ UNCHANGED <<worldVars, beatVars, pathVars, loopVars>>

\* the body of CameraController.boostSpeed(multiplier)
boostSpeed(multiplier) ==
  /\ currentSpeed' = (baseSpeed * multiplier[1]) \div multiplier[2]
  /\ perspectiveNotified' = <<>>
  /\ UNCHANGED <<turnState, currentFlightAngle, turnCompleteCallbacks,
                 positionProvider, providerPos, flightAngle, controlPoints,
                 lastOp, ret, notified, sinceTurn, fixed16, turnsStarted>>
  /\ UNCHANGED <<currentDistance, currentZ, baseSpeed, perspectiveMode,
                 perspectiveTransitionProgress, thirdPersonTimer,
                 timeInThirdPerson,
                 isTransitioning, targetPerspective,
                 perspectiveChangeCallbacks, switchesIssued>>
  /\ UNCHANGED <<worldVars, beatVars, pathVars>>


\* CameraController.boostSpeed(multiplier)
BoostSpeed(multiplier) == boostSpeed(multiplier) /\ UNCHANGED loopVars
\* MathUtils.lerp(x, y, t) = (1 - t) * x + t * y, for the factor
\* t = t[1] / t[2]
lerp(x, y, t) == ((t[2] - t[1]) * x + t[1] * y) \div t[2]

\* lerp(x, y, t) is a whole multiple of step
wholeLerp(x, y, t, step) ==
  ((t[2] - t[1]) * x + t[1] * y) % (t[2] * step) = 0

\* the body of CameraController.easeToBaseSpeed(factor)
easeToBaseSpeed(factor) ==
  /\ currentSpeed' = lerp(currentSpeed, baseSpeed, factor)
  /\ perspectiveNotified' = <<>>
  /\ UNCHANGED <<turnState, currentFlightAngle, turnCompleteCallbacks,
                 positionProvider, providerPos, flightAngle, controlPoints,
                 lastOp, ret, notified, sinceTurn, fixed16, turnsStarted>>
  /\ UNCHANGED <<currentDistance, currentZ, baseSpeed, perspectiveMode,
                 perspectiveTransitionProgress, thirdPersonTimer,
                 timeInThirdPerson,
                 isTransitioning, targetPerspective,
                 perspectiveChangeCallbacks, switchesIssued>>
  /\ UNCHANGED <<worldVars, beatVars, pathVars>>


\* CameraController.easeToBaseSpeed(factor)
EaseToBaseSpeed(factor) ==
  easeToBaseSpeed(factor) /\ UNCHANGED loopVars
\* the body of CameraController.switchToThirdPerson()
switchToThirdPerson ==
  /\ switchesIssued' = switchesIssued + 1
  /\ IF perspectiveMode = "third-person" /\ ~isTransitioning
     THEN /\ thirdPersonTimer' = 0
          /\ timeInThirdPerson' = 0
          /\ perspectiveNotified' = <<>>
          /\ UNCHANGED <<targetPerspective, isTransitioning,
                         perspectiveTransitionProgress>>
     ELSE /\ targetPerspective' = "third-person"
          /\ isTransitioning' = TRUE
          /\ perspectiveTransitionProgress' = 0
          /\ thirdPersonTimer' = 0
          /\ timeInThirdPerson' = timeInThirdPerson
          /\ perspectiveNotified' = perspectiveCalls("third-person")
  /\ UNCHANGED <<turnState, currentFlightAngle, turnCompleteCallbacks,
                 positionProvider, providerPos, flightAngle, controlPoints,
                 lastOp, ret, notified, sinceTurn, fixed16, turnsStarted>>
  /\ UNCHANGED <<currentDistance, currentZ, baseSpeed, currentSpeed,
                 perspectiveMode, perspectiveChangeCallbacks>>
  /\ UNCHANGED <<worldVars, beatVars, pathVars>>


\* CameraController.switchToThirdPerson(); the callers issue MaxSwitches
\* switch commands
SwitchToThirdPerson ==
  /\ switchesIssued < MaxSwitches
  /\ switchToThirdPerson
  /\ UNCHANGED loopVars
\* CameraController.switchToFirstPerson()
SwitchToFirstPerson ==
  /\ switchesIssued < MaxSwitches
  /\ switchesIssued' = switchesIssued + 1
  /\ IF perspectiveMode = "first-person" /\ ~isTransitioning
     THEN /\ perspectiveNotified' = <<>>
          /\ UNCHANGED <<targetPerspective, isTransitioning,
                         perspectiveTransitionProgress>>
     ELSE /\ targetPerspective' = "first-person"
          /\ isTransitioning' = TRUE
          /\ perspectiveTransitionProgress' = 0
          /\ perspectiveNotified' = perspectiveCalls("first-person")
  /\ UNCHANGED <<turnState, currentFlightAngle, turnCompleteCallbacks,
                 positionProvider, providerPos, flightAngle, controlPoints,
                 lastOp, ret, notified, sinceTurn, fixed16, turnsStarted>>
  /\ UNCHANGED <<currentDistance, currentZ, baseSpeed, currentSpeed,
                 perspectiveMode, thirdPersonTimer, timeInThirdPerson,
                 perspectiveChangeCallbacks>>
  /\ UNCHANGED <<worldVars, beatVars, pathVars, loopVars>>

\* CameraController.onPerspectiveChange(callback)
OnPerspectiveChange(cb) ==
  /\ Len(perspectiveChangeCallbacks) < MaxCallbacks
  /\ perspectiveChangeCallbacks' = Append(perspectiveChangeCallbacks, cb)
  /\ perspectiveNotified' = <<>>
  /\ UNCHANGED <<turnState, currentFlightAngle, turnCompleteCallbacks,
                 positionProvider, providerPos, flightAngle, controlPoints,
                 lastOp, ret, notified, sinceTurn, fixed16, turnsStarted>>
  /\ UNCHANGED <<currentDistance, currentZ, baseSpeed, currentSpeed,
                 perspectiveMode, perspectiveTransitionProgress,
                 thirdPersonTimer, timeInThirdPerson, isTransitioning,
                 targetPerspective,
                 switchesIssued>>
  /\ UNCHANGED <<worldVars, beatVars, pathVars, loopVars>>

\* CameraController.offPerspectiveChange(callback)
OffPerspectiveChange(cb) ==
  /\ perspectiveChangeCallbacks' =
       SelectSeq(perspectiveChangeCallbacks, LAMBDA c : c # cb)
  /\ perspectiveNotified' = <<>>
  /\ UNCHANGED <<turnState, currentFlightAngle, turnCompleteCallbacks,
                 positionProvider, providerPos, flightAngle, controlPoints,
                 lastOp, ret, notified, sinceTurn, fixed16, turnsStarted>>
  /\ UNCHANGED <<currentDistance, currentZ, baseSpeed, currentSpeed,
                 perspectiveMode, perspectiveTransitionProgress,
                 thirdPersonTimer, timeInThirdPerson, isTransitioning,
                 targetPerspective,
                 switchesIssued>>
  /\ UNCHANGED <<worldVars, beatVars, pathVars, loopVars>>

\* the perspective part of CameraController.update: the transition animation,
\* then the third-person timer, which calls switchToFirstPerson when it runs
\* out
perspectiveUpdate(dt) ==
  LET progressed == perspectiveTransitionProgress + dt
      finished == isTransitioning /\ progressed >= TRANSITION_DURATION_MS
      transitioning1 == isTransitioning /\ ~finished
      mode1 == IF finished THEN targetPerspective ELSE perspectiveMode
      progress1 == IF ~isTransitioning THEN perspectiveTransitionProgress
                   ELSE IF finished THEN TRANSITION_DURATION_MS
                   ELSE progressed
      timed == mode1 = "third-person" /\ ~transitioning1
      timer1 == IF timed THEN thirdPersonTimer + dt ELSE thirdPersonTimer
      revert == timed /\ timer1 >= THIRD_PERSON_DURATION_MS
  IN  /\ perspectiveMode' = mode1
      /\ thirdPersonTimer' = timer1
      /\ timeInThirdPerson' =
           IF perspectiveMode = "third-person" /\ ~isTransitioning
           THEN timeInThirdPerson + dt
           ELSE 0
      /\ IF revert
         THEN /\ targetPerspective' = "first-person"
              /\ isTransitioning' = TRUE
              /\ perspectiveTransitionProgress' = 0
              /\ perspectiveNotified' = perspectiveCalls("first-person")
         ELSE /\ targetPerspective' = targetPerspective
              /\ isTransitioning' = transitioning1
              /\ perspectiveTransitionProgress' = progress1
              /\ perspectiveNotified' = <<>>

\* the frame's distance taken from the base speed
distanceThisFrame_atBaseSpeed(speed, dt) == (baseSpeed * dt) \div 1000

\* currentSpeed * deltaTime, in units (the speeds and frame times used make
\* it whole)
distanceThisFrame(speed, dt) == (speed * dt) \div 1000

\* the body of CameraController.update(deltaTime)
cameraUpdate(dt) ==
  /\ lastOp' = [NoOp EXCEPT !.op = "update", !.dt = dt]
  /\ currentDistance' = currentDistance + distanceThisFrame(currentSpeed, dt)
  /\ currentZ' = currentZ + distanceThisFrame(currentSpeed, dt)
  /\ turnControllerUpdate(
       dt, extendIfNeededByDistance(controlPoints, flightAngle,
                                    currentDistance'))
  /\ perspectiveUpdate(dt)
  /\ UNCHANGED <<turnCompleteCallbacks, positionProvider, providerPos,
                 turnsStarted, baseSpeed, currentSpeed,
                 perspectiveChangeCallbacks, switchesIssued>>
  /\ UNCHANGED <<worldVars, beatVars, pathVars>>

\* CameraController.update(deltaTime).  The camera stops at MaxDistance, or
\* within three times that distance when it has a turn to finish.
CameraUpdate(dt) ==
  /\ UNCHANGED loopVars
  /\ currentDistance < (IF turnState.isActive THEN 3 * MaxDistance
                        ELSE MaxDistance)
  /\ cameraUpdate(dt)

\* CameraController.executeTurn(direction): the turn controller's answer
CameraExecuteTurn(direction) ==
  /\ currentDistance < MaxDistance
  /\ ExecuteTurn(direction)

\* CameraController.canTurnSafely(direction): the turn controller's answer,
\* for the bullet position the provider reads off the path.  The position on
\* the spline is not computed here: it is any of the sample points.
CameraCanTurnSafely(direction) ==
  /\ \E p \in ProviderPoints :
       ret' = canTurnSafely(positionProvider, turnState.isActive, p,
                            currentFlightAngle, direction)
  /\ lastOp' = [NoOp EXCEPT !.op = "canTurnSafely", !.dir = direction]
  /\ UNCHANGED <<turnState, currentFlightAngle, turnCompleteCallbacks,
                 positionProvider, providerPos, flightAngle, controlPoints,
                 notified, sinceTurn, fixed16, turnsStarted, cameraVars>>
  /\ UNCHANGED <<worldVars, beatVars, pathVars, loopVars>>

NextCamera ==
  \/ \E dt \in CameraFrameSteps : CameraUpdate(dt)
  \/ \E d \in Directions : CameraExecuteTurn(d)
  \/ \E d \in Directions : CameraCanTurnSafely(d)
  \/ \E s \in SpeedChoices : SetSpeed(s)
  \/ \E m \in BoostChoices : BoostSpeed(m)
  \/ \E f \in EaseChoices : EaseToBaseSpeed(f)
  \/ SwitchToThirdPerson
  \/ SwitchToFirstPerson
  \/ \E cb \in PerspectiveCallbackIds : OnPerspectiveChange(cb)
  \/ \E cb \in PerspectiveCallbackIds : OffPerspectiveChange(cb)
  \/ OnTurnComplete("cbA")
  \/ OffTurnComplete("cbA")

SpecCamera == InitCamera /\ [][NextCamera]_vars

\* the render loop calls the camera's update every frame, with a positive
\* frame time whenever the clock has advanced
FairSpecCamera ==
  SpecCamera /\ WF_vars(\E dt \in CameraFrameSteps \ {0} : CameraUpdate(dt))

\* ------------------------------------------------ the world and the oracle
InitWorld ==
  TurnInit /\ CameraInit /\ WorldInit /\ LoopInit /\ BeatInit /\ positionProvider = "null"

\* createModelChunk(chunkX, chunkZ), as ModelChunkManager.loadChunk calls it
CreateModelChunk(chunkX, chunkZ, layout) ==
  /\ worldChunk' = createModelChunk(chunkX, chunkZ, layout)
  /\ UNCHANGED <<probe, probeBlocked, turnVars, cameraVars, beatVars, pathVars, loopVars>>

\* TurnController.isPointNearBuilding(point), as checkPathClear calls it
IsPointNearBuilding(point) ==
  /\ probe' = point
  /\ probeBlocked' = isPointNearBuilding(point)
  /\ UNCHANGED <<worldChunk, turnVars, cameraVars, beatVars, pathVars, loopVars>>

NextWorld ==
  \/ \E cx \in ChunkRange, cz \in ChunkRange, layout \in ChunkLayouts :
       CreateModelChunk(cx, cz, layout)
  \/ \E point \in WorldProbes : IsPointNearBuilding(point)

SpecWorld == InitWorld /\ [][NextWorld]_vars

\* -------------------------------------------- the speed of the camera
\* frame times, boost multipliers and easing factors of the speed runs; the
\* speeds stay whole multiples of SPEED_STEP, which keeps every frame's
\* distance whole
RideFrameSteps == {0, 100, 400}
RideBoosts == {<<1, 1>>, <<2, 1>>, <<3, 1>>}
RideEases == {<<0, 1>>, <<1, 5>>, <<1, 2>>, <<1, 1>>}
SPEED_STEP == DEFAULT_BASE_SPEED \div 5

\* CameraController.update(deltaTime), until the run's end
SpeedUpdate(dt) ==
  /\ UNCHANGED loopVars
  /\ currentDistance < MaxRun
  /\ cameraUpdate(dt)

NextSpeed ==
  \/ \E dt \in RideFrameSteps : SpeedUpdate(dt)
  \/ \E m \in RideBoosts : BoostSpeed(m)
  \/ \E f \in RideEases :
       /\ wholeLerp(currentSpeed, baseSpeed, f, SPEED_STEP)
       /\ EaseToBaseSpeed(f)
  \/ \E d \in Directions : CameraExecuteTurn(d)
  \/ SwitchToThirdPerson

SpecSpeed == InitCamera /\ [][NextSpeed]_vars

\* ------------------------------------- the perspective over a long flight
\* frame times of the long flights, in ms
FlightFrameSteps == {0, 200, 400}

\* CameraController.update(deltaTime), until the flight's end
FlightUpdate(dt) ==
  /\ UNCHANGED loopVars
  /\ currentDistance < MaxFlight
  /\ cameraUpdate(dt)

NextFlight ==
  \/ \E dt \in FlightFrameSteps : FlightUpdate(dt)
  \/ SwitchToThirdPerson
  \/ SwitchToFirstPerson
  \/ \E cb \in PerspectiveCallbackIds : OnPerspectiveChange(cb)
  \/ \E cb \in PerspectiveCallbackIds : OffPerspectiveChange(cb)

SpecFlight == InitCamera /\ [][NextFlight]_vars

\* ------------------------------------------ the camera on a fast journey
\* speeds set by the caller and frame times, in ms: frames advance the
\* camera by 500 or 600 units, or by 20 at the speed it starts with
JourneySpeeds == {1250, 1500}
JourneyFrameSteps == {400}

\* CameraController.update(deltaTime), up to MaxJourney
JourneyUpdate(dt) ==
  /\ UNCHANGED loopVars
  /\ currentDistance < MaxJourney
  /\ cameraUpdate(dt)

\* CameraController.executeTurn(direction), up to MaxJourney
JourneyExecuteTurn(direction) ==
  /\ currentDistance < MaxJourney
  /\ ExecuteTurn(direction)

NextJourney ==
  \/ \E dt \in JourneyFrameSteps : JourneyUpdate(dt)
  \/ \E d \in Directions : JourneyExecuteTurn(d)
  \/ \E s \in JourneySpeeds : SetSpeed(s)

SpecJourney == InitCamera /\ [][NextJourney]_vars

\* ------------------------------------------------------ the beat detector
InitBeat ==
  TurnInit /\ CameraInit /\ WorldInit /\ LoopInit /\ BeatInit /\ positionProvider = "null"

\* the audio moves on: the analyser has other data to hand out.  (The level
\* moves only every ChangeStride frames.)
AudioChanges(data) ==
  /\ frames % ChangeStride = 0
  /\ frequencyData' = data
  /\ UNCHANGED <<now, energyHistory, longTermEnergyHistory, lastBeatTime,
                 lastTransitionTime, lastHeavyBeatShiftTime,
                 currentBeatIntensity, beatCallbacks, transitionCallbacks,
                 heavyBeatShiftCallbacks, beatRet, beatNotified, pushed,
                 frames, resets,
                 track, pace, eventLog>>
  /\ UNCHANGED <<turnVars, cameraVars, worldVars, pathVars, loopVars>>

\* updateBeatDetection() on the analyser's data, dt ms after the call before
\* it: the samples are pushed, then checkForTransition, detectHeavyBeatShift
\* and the beat test run, each notifying its own subscribers
updateBeatDetection(data, dt) ==
  LET currentEnergy == getKickEnergy(data)
      rollingAverage == getRollingAverage(energyHistory)
      time == now + dt
      short == pushWindow(energyHistory, currentEnergy, HISTORY_SIZE)
      long == pushWindow(longTermEnergyHistory, currentEnergy,
                         TRANSITION_HISTORY_SIZE)
      transition == checkForTransition(long, time, lastTransitionTime)
      heavy == detectHeavyBeatShift(short, currentEnergy, time,
                                    lastHeavyBeatShiftTime)
      enough == ~(2 * Len(short) < HISTORY_SIZE)
      beat == enough /\ beatDetected(rollingAverage, currentEnergy, time,
                                     lastBeatTime)
      intensity ==
        IF ~enough THEN currentBeatIntensity
        ELSE IF beat
        THEN spikeIntensity(currentEnergy, rollingAverage, BEAT_THRESHOLD)
        ELSE decayBeatIntensity(currentBeatIntensity)
  IN  /\ now' = time
      /\ energyHistory' = short
      /\ longTermEnergyHistory' = long
      /\ lastTransitionTime' =
           IF transition.fires THEN time ELSE lastTransitionTime
      /\ lastHeavyBeatShiftTime' =
           IF heavy.fires THEN time ELSE lastHeavyBeatShiftTime
      /\ lastBeatTime' = IF beat THEN time ELSE lastBeatTime
      /\ currentBeatIntensity' = intensity
      /\ beatNotified' =
           (IF transition.fires
            THEN eventCalls("transition", transitionCallbacks,
                            transition.intensity)
            ELSE <<>>)
           \o (IF heavy.fires
               THEN eventCalls("heavyBeatShift", heavyBeatShiftCallbacks,
                               heavy.intensity)
               ELSE <<>>)
           \o (IF beat THEN eventCalls("beat", beatCallbacks, intensity)
               ELSE <<>>)
      /\ beatRet' = beat
      /\ pushed' = Append(pushed, currentEnergy)
      /\ frames' = frames + 1
      /\ eventLog' =
           logged(logged(logged(eventLog, "transition", transition.fires, time),
                         "heavyBeatShift", heavy.fires, time),
                  "beat", beat, time)
      /\ UNCHANGED <<beatCallbacks, transitionCallbacks,
                     heavyBeatShiftCallbacks, resets, track, pace>>
      /\ UNCHANGED <<turnVars, cameraVars, worldVars, pathVars>>

\* updateBeatDetection(), dt ms after the call before it, when the analyser
\* hands out what the last change of the audio left
UpdateBeatDetection(dt) ==
  /\ frames < MaxFrames
  /\ updateBeatDetection(frequencyData, dt)
  /\ UNCHANGED <<frequencyData, loopVars>>

\* the body of onBeat(callback)
onBeat(cb) ==
  /\ beatCallbacks' = Append(beatCallbacks, cb)
  /\ UNCHANGED <<frequencyData, now, energyHistory, longTermEnergyHistory,
                 lastBeatTime, lastTransitionTime, lastHeavyBeatShiftTime,
                 currentBeatIntensity, transitionCallbacks,
                 heavyBeatShiftCallbacks, beatRet, beatNotified, pushed,
                 frames, resets,
                 track, pace, eventLog>>
  /\ UNCHANGED <<turnVars, cameraVars, worldVars, pathVars, loopVars>>

\* onBeat(callback), while the list is shorter than MaxCallbacks
OnBeat(cb) ==
  /\ Len(beatCallbacks) < MaxCallbacks
  /\ onBeat(cb)

\* offBeat(callback)
OffBeat(cb) ==
  /\ beatCallbacks' = SelectSeq(beatCallbacks, LAMBDA c : c # cb)
  /\ UNCHANGED <<frequencyData, now, energyHistory, longTermEnergyHistory,
                 lastBeatTime, lastTransitionTime, lastHeavyBeatShiftTime,
                 currentBeatIntensity, transitionCallbacks,
                 heavyBeatShiftCallbacks, beatRet, beatNotified, pushed,
                 frames, resets,
                 track, pace, eventLog>>
  /\ UNCHANGED <<turnVars, cameraVars, worldVars, pathVars, loopVars>>

\* the body of onTransition(callback)
onTransition(cb) ==
  /\ transitionCallbacks' = Append(transitionCallbacks, cb)
  /\ UNCHANGED <<frequencyData, now, energyHistory, longTermEnergyHistory,
                 lastBeatTime, lastTransitionTime, lastHeavyBeatShiftTime,
                 currentBeatIntensity, beatCallbacks,
                 heavyBeatShiftCallbacks, beatRet, beatNotified, pushed,
                 frames, resets,
                 track, pace, eventLog>>
  /\ UNCHANGED <<turnVars, cameraVars, worldVars, pathVars, loopVars>>

\* onTransition(callback), while the list is shorter than MaxCallbacks
OnTransition(cb) ==
  /\ Len(transitionCallbacks) < MaxCallbacks
  /\ onTransition(cb)

\* offTransition(callback)
OffTransition(cb) ==
  /\ transitionCallbacks' = SelectSeq(transitionCallbacks, LAMBDA c : c # cb)
  /\ UNCHANGED <<frequencyData, now, energyHistory, longTermEnergyHistory,
                 lastBeatTime, lastTransitionTime, lastHeavyBeatShiftTime,
                 currentBeatIntensity, beatCallbacks,
                 heavyBeatShiftCallbacks, beatRet, beatNotified, pushed,
                 frames, resets,
                 track, pace, eventLog>>
  /\ UNCHANGED <<turnVars, cameraVars, worldVars, pathVars, loopVars>>

\* the body of onHeavyBeatShift(callback)
onHeavyBeatShift(cb) ==
  /\ heavyBeatShiftCallbacks' = Append(heavyBeatShiftCallbacks, cb)
  /\ UNCHANGED <<frequencyData, now, energyHistory, longTermEnergyHistory,
                 lastBeatTime, lastTransitionTime, lastHeavyBeatShiftTime,
                 currentBeatIntensity, beatCallbacks, transitionCallbacks,
                 beatRet, beatNotified, pushed, frames, resets,
                 track, pace, eventLog>>
  /\ UNCHANGED <<turnVars, cameraVars, worldVars, pathVars, loopVars>>

\* onHeavyBeatShift(callback), while the list is shorter than MaxCallbacks
OnHeavyBeatShift(cb) ==
  /\ Len(heavyBeatShiftCallbacks) < MaxCallbacks
  /\ onHeavyBeatShift(cb)

\* offHeavyBeatShift(callback)
OffHeavyBeatShift(cb) ==
  /\ heavyBeatShiftCallbacks' =
       SelectSeq(heavyBeatShiftCallbacks, LAMBDA c : c # cb)
  /\ UNCHANGED <<frequencyData, now, energyHistory, longTermEnergyHistory,
                 lastBeatTime, lastTransitionTime, lastHeavyBeatShiftTime,
                 currentBeatIntensity, beatCallbacks, transitionCallbacks,
                 beatRet, beatNotified, pushed, frames, resets,
                 track, pace, eventLog>>
  /\ UNCHANGED <<turnVars, cameraVars, worldVars, pathVars, loopVars>>

\* resetBeatDetection().  (Called between two stretches of audio.)
ResetBeatDetection ==
  /\ resets < MaxResets
  /\ frames % ChangeStride = 0
  /\ resets' = resets + 1
  /\ energyHistory' = <<>>
  /\ longTermEnergyHistory' = <<>>
  /\ lastBeatTime' = 0
  /\ lastTransitionTime' = 0
  /\ lastHeavyBeatShiftTime' = 0
  /\ currentBeatIntensity' = <<0, 1>>
  /\ pushed' = <<>>
  /\ UNCHANGED <<frequencyData, now, beatCallbacks, transitionCallbacks,
                 heavyBeatShiftCallbacks, beatRet, beatNotified, frames,
                 track, pace, eventLog>>
  /\ UNCHANGED <<turnVars, cameraVars, worldVars, pathVars, loopVars>>

NextBeat ==
  \/ \E data \in FrequencySnapshots : AudioChanges(data)
  \/ \E dt \in BeatFrameSteps : UpdateBeatDetection(dt)
  \/ \E cb \in BeatCallbackIds : OnBeat(cb)
  \/ \E cb \in BeatCallbackIds : OffBeat(cb)
  \/ \E cb \in BeatCallbackIds : OnTransition(cb)
  \/ \E cb \in BeatCallbackIds : OffTransition(cb)
  \/ \E cb \in BeatCallbackIds : OnHeavyBeatShift(cb)
  \/ \E cb \in BeatCallbackIds : OffHeavyBeatShift(cb)
  \/ ResetBeatDetection

SpecBeat == InitBeat /\ [][NextBeat]_vars

\* ------------------------------------------- the beat detector in a session
InitBeatEvents ==
  /\ TurnInit /\ CameraInit /\ WorldInit /\ LoopInit /\ BeatStateInit
  /\ positionProvider = "null"
  /\ \E session \in Sessions : track = session.track /\ pace = session.pace

\* a rendered frame: the analyser fills the array from the audio and
\* updateBeatDetection runs on it
PlayFrame ==
  /\ frames < MaxEventFrames
  /\ LET data == snapshotOf(levelAt(track, frames + 1))
     IN  /\ frequencyData' = data
         /\ updateBeatDetection(data, pace)
  /\ UNCHANGED loopVars

\* the subscriptions are made when the page starts, before the first frame
NextBeatEvents ==
  \/ PlayFrame
  \/ \E cb \in BeatCallbackIds : frames = 0 /\ OnBeat(cb)
  \/ \E cb \in BeatCallbackIds : frames = 0 /\ OnTransition(cb)
  \/ \E cb \in BeatCallbackIds : frames = 0 /\ OnHeavyBeatShift(cb)
  \/ ResetBeatDetection

SpecBeatEvents == InitBeatEvents /\ [][NextBeatEvents]_vars

\* ------------------------------------- the beat detector and its audience
\* the sessions played to the audience: one in which a beat and a heavy
\* shift fire together every 7 s, one in which all three kinds fire in the
\* 120th frame
AudienceSessions ==
  {[track |-> << <<100, 10>>, <<0, 12>>, <<255, 1>>, <<0, 12>> >>, pace |-> 200],
   [track |-> << <<0, 89>>, <<150, 18>>, <<0, 12>>, <<255, 1>>, <<0, 20>> >>,
    pace |-> 200]}

\* the callbacks of the audience: two for beats, one for the other kinds
AudienceIds == {"cbA", "cbB"}
OtherAudienceIds == {"cbA"}

InitAudience ==
  /\ TurnInit /\ CameraInit /\ WorldInit /\ LoopInit /\ BeatStateInit
  /\ positionProvider = "null"
  /\ \E session \in AudienceSessions :
       track = session.track /\ pace = session.pace

\* the audience changes between two frames, every ChangeStride frames
audienceChanges == frames % ChangeStride = 0

NextAudience ==
  \/ PlayFrame
  \/ \E cb \in AudienceIds :
       /\ audienceChanges /\ Len(beatCallbacks) < MaxSubscribers
       /\ onBeat(cb)
  \/ \E cb \in AudienceIds : audienceChanges /\ OffBeat(cb)
  \/ \E cb \in OtherAudienceIds :
       /\ audienceChanges /\ Len(transitionCallbacks) < MaxSubscribers
       /\ onTransition(cb)
  \/ \E cb \in OtherAudienceIds : audienceChanges /\ OffTransition(cb)
  \/ \E cb \in OtherAudienceIds :
       /\ audienceChanges /\ Len(heavyBeatShiftCallbacks) < MaxSubscribers
       /\ onHeavyBeatShift(cb)
  \/ \E cb \in OtherAudienceIds : audienceChanges /\ OffHeavyBeatShift(cb)

SpecAudience == InitAudience /\ [][NextAudience]_vars

\* ------------------------------------------------------ main.ts
\* the sessions played through the render loop: frames of 200 ms, in which
\* the base speed covers a whole number of units
LoopSessions == {session \in Sessions : session.pace = 200}

\* main.ts, once its top-level code has run: the camera controller, the
\* subscriptions (onPerspectiveChange, onTransition, onBeat) and the first
\* call of animate still to come
InitLoop ==
  /\ TurnInit /\ CameraStateInit /\ WorldInit /\ LoopInit /\ DetectorInit
  /\ positionProvider = "set"
  /\ perspectiveChangeCallbacks = <<"avatar">>
  /\ transitionCallbacks = <<"thirdPerson">>
  /\ beatCallbacks = <<"speedBoost">>
  /\ heavyBeatShiftCallbacks = <<>>
  /\ \E session \in LoopSessions :
       track = session.track /\ pace = session.pace

\* animate is between two of its runs
betweenFrames ==
  IF frameCalls = <<>> THEN TRUE
  ELSE frameCalls[Len(frameCalls)] = "renderWithMotionBlur"

\* 1 - Math.exp(-15 * deltaTime), to the nearest twentieth, for the frame
\* times of the sessions (in ms)
easeFactor(dt) ==
  CASE dt = 200 -> <<19, 20>>
    [] dt = 50 -> <<11, 20>>
    [] dt = 17 -> <<5, 20>>
    [] dt = 16 -> <<4, 20>>

\* MIN_SPEED_BOOST + (MAX_SPEED_BOOST - MIN_SPEED_BOOST) * intensity
boostMultiplier(intensity) ==
  <<18 * intensity[2] + 7 * intensity[1], 10 * intensity[2]>>

\* initAnalyser(): the node is created once, with its frequency array
initAnalyser(node) == IF node = "null" THEN "created" ELSE node

\* startSystemAudioCapture(), captured telling whether getDisplayMedia
\* handed over a stream with an audio track: initAnalyser() comes first;
\* without a stream the catch block returns false; with one the stream's
\* source is connected to the analyser and true is returned
startSystemAudioCapture(node, captured) ==
  [analyserNode |-> IF captured THEN "connected" ELSE initAnalyser(node),
   success |-> captured]

\* getFrequencyData(): an empty array without the analyser, else what
\* getByteFrequencyData leaves in the array, which is level in every bin
\* when a source feeds the analyser and 0 when none does
getFrequencyData(node, level) ==
  IF node = "null" THEN <<>>
  ELSE IF node = "connected" THEN snapshotOf(level)
  ELSE snapshotOf(0)

\* startWithBuiltinAudio: initAudio(), loadAudio() and play(), which
\* connects the buffer source to audioContext.destination
StartWithBuiltinAudio ==
  /\ ~started
  /\ betweenFrames
  /\ started' = TRUE
  /\ UNCHANGED <<frameCalls, poolLoaded, loadedAround, analyserNode>>
  /\ UNCHANGED <<turnVars, cameraVars, worldVars, beatVars, pathVars>>

\* startWithSystemAudio: the experience starts when the capture succeeds
StartWithSystemAudio(captured) ==
  /\ ~started
  /\ betweenFrames
  /\ LET capture == startSystemAudioCapture(analyserNode, captured)
     IN  /\ analyserNode' = capture.analyserNode
         /\ started' = capture.success
  /\ UNCHANGED <<frameCalls, poolLoaded, loadedAround>>
  /\ UNCHANGED <<turnVars, cameraVars, worldVars, beatVars, pathVars>>

\* ModelChunkManager.init: the building pool has been loaded
PoolLoaded ==
  /\ ~poolLoaded
  /\ betweenFrames
  /\ poolLoaded' = TRUE
  /\ UNCHANGED <<started, frameCalls, loadedAround, analyserNode>>
  /\ UNCHANGED <<turnVars, cameraVars, worldVars, beatVars, pathVars>>

\* animate, started: cameraController.easeToBaseSpeed(easeFactor).  (The
\* speeds are cut to whole units per second.)
AnimateEase ==
  /\ started
  /\ betweenFrames
  /\ frames < MaxEventFrames
  /\ easeToBaseSpeed(easeFactor(pace))
  /\ frameCalls' = <<"easeToBaseSpeed">>
  /\ UNCHANGED <<started, poolLoaded, loadedAround, analyserNode>>

\* animate, started: cameraController.update(deltaTime), and the bullet
\* avatar after it
AnimateCamera ==
  /\ frameCalls = <<"easeToBaseSpeed">>
  /\ cameraUpdate(pace)
  /\ frameCalls' = Append(frameCalls, "cameraController.update")
  /\ UNCHANGED <<started, poolLoaded, loadedAround, analyserNode>>

\* animate, started: updateBeatDetection(), up to its callbacks
AnimateDetect ==
  /\ frameCalls = <<"easeToBaseSpeed", "cameraController.update">>
  /\ LET data == getFrequencyData(analyserNode, levelAt(track, frames + 1))
     IN  /\ frequencyData' = data
         /\ updateBeatDetection(data, pace)
  /\ frameCalls' = Append(frameCalls, "updateBeatDetection")
  /\ UNCHANGED <<started, poolLoaded, loadedAround, analyserNode>>

\* the callbacks updateBeatDetection has run so far in this frame
callbacksRun == Len(frameCalls) - 3

\* updateBeatDetection is in the frame's calls and has callbacks left to run
inDetection ==
  /\ Len(frameCalls) >= 3
  /\ frameCalls[Len(frameCalls)] \in {"updateBeatDetection", "thirdPerson",
                                      "speedBoost"}

\* animate, started: the next callback of updateBeatDetection.  onTransition
\* switches to third-person when the intensity is above 0.3; onBeat boosts
\* the speed (and triggers the pulses of the beat effects).
AnimateCallback ==
  /\ inDetection
  /\ callbacksRun < Len(beatNotified)
  /\ LET call == beatNotified[callbacksRun + 1]
     IN  /\ frameCalls' = Append(frameCalls, call[2])
         /\ IF call[2] = "speedBoost"
            THEN boostSpeed(boostMultiplier(call[3]))
            ELSE IF RatLess(<<3, 10>>, call[3])
            THEN switchToThirdPerson
            ELSE UNCHANGED <<turnVars, cameraVars, worldVars, beatVars,
                             pathVars>>
  /\ UNCHANGED <<started, poolLoaded, loadedAround, analyserNode>>

\* animate: chunkManager.update(camera.position), after the effects and the
\* motion blur of a started frame
AnimateChunks ==
  /\ IF started
     THEN inDetection /\ callbacksRun = Len(beatNotified)
     ELSE betweenFrames
  /\ frameCalls' = IF started
                   THEN Append(frameCalls, "chunkManager.update")
                   ELSE <<"chunkManager.update">>
  /\ loadedAround' = IF poolLoaded THEN currentDistance ELSE loadedAround
  /\ UNCHANGED <<started, poolLoaded, analyserNode>>
  /\ UNCHANGED <<turnVars, cameraVars, worldVars, beatVars, pathVars>>

\* animate: renderWithMotionBlur()
AnimateRender ==
  /\ frameCalls # <<>>
  /\ frameCalls[Len(frameCalls)] = "chunkManager.update"
  /\ frameCalls' = Append(frameCalls, "renderWithMotionBlur")
  /\ UNCHANGED <<started, poolLoaded, loadedAround, analyserNode>>
  /\ UNCHANGED <<turnVars, cameraVars, worldVars, beatVars, pathVars>>

NextLoop ==
  \/ StartWithBuiltinAudio
  \/ \E captured \in BOOLEAN : StartWithSystemAudio(captured)
  \/ PoolLoaded
  \/ AnimateEase
  \/ AnimateCamera
  \/ AnimateDetect
  \/ AnimateCallback
  \/ AnimateChunks
  \/ AnimateRender

SpecLoop == InitLoop /\ [][NextLoop]_vars

\* ------------------------------------------------- the flight path alone
PathKinds == {"spline", "segments"}

\* new FlightPath(), of either build
InitPath ==
  /\ TurnStateInit /\ CameraInit /\ WorldInit /\ LoopInit /\ BeatInit
  /\ positionProvider = "null"
  /\ flightAngle = 0
  /\ lookup = NoLookup
  /\ pathKind \in PathKinds
  /\ IF pathKind = "spline"
     THEN controlPoints = InitialControlPoints /\ currentStreet = <<0, 0>>
     ELSE /\ controlPoints = segmentsInitialPath.points
          /\ currentStreet = segmentsInitialPath.street

\* the distances the camera has travelled when it asks for more path: none,
\* and to within EXTEND_THRESHOLD, to within 400 units and to the end of
\* the path's stretches along the axes
ExtendDistances(points) ==
  {0, axisLength(points) - EXTEND_THRESHOLD,
   axisLength(points) - LookupOffsets[3], axisLength(points)}

\* FlightPath.extendIfNeededByDistance(currentDistance)
ExtendIfNeededByDistance(distance) ==
  /\ Len(controlPoints) < MaxPathPoints
  /\ IF pathKind = "spline"
     THEN /\ controlPoints' =
               extendIfNeededByDistance(controlPoints, flightAngle, distance)
          /\ UNCHANGED currentStreet
     ELSE LET path == segmentsExtendIfNeeded(
                        [points |-> controlPoints, street |-> currentStreet],
                        flightAngle, distance)
          IN  /\ controlPoints' = path.points
              /\ currentStreet' = path.street
  /\ UNCHANGED <<turnState, currentFlightAngle, turnCompleteCallbacks,
                 positionProvider, providerPos, flightAngle, lastOp, ret,
                 notified, sinceTurn, fixed16, turnsStarted, pathKind, lookup>>
  /\ UNCHANGED <<cameraVars, worldVars, beatVars, loopVars>>

\* FlightPath.setFlightDirection(angle), with the angle a completed quarter
\* turn gives it; only the spline build has the method
SetFlightDirection(direction) ==
  /\ pathKind = "spline"
  /\ Len(controlPoints) < MaxPathPoints
  /\ flightAngle' = normalizeAngle(flightAngle + turnAngleOf(direction))
  /\ controlPoints' = setFlightDirectionPoints(controlPoints, flightAngle')
  /\ UNCHANGED <<turnState, currentFlightAngle, turnCompleteCallbacks,
                 positionProvider, providerPos, lastOp, ret, notified,
                 sinceTurn, fixed16, turnsStarted, pathVars, loopVars>>
  /\ UNCHANGED <<cameraVars, worldVars, beatVars, loopVars>>

\* the distances asked of a segments path: its ends, past its end, and
\* every control point and some way past it
LookupDistances(points) ==
  UNION {{0, cumulative[Len(cumulative)] + 1}
           \cup {cumulative[i] + LookupOffsets[k] :
                   i \in 1..Len(cumulative), k \in 1..Len(LookupOffsets)} :
         cumulative \in {cumulativeDistances(points)}}

\* FlightPath.getPositionAtDistance(distance)
GetPositionAtDistance ==
  /\ IF pathKind = "spline"
     THEN \E where \in DistanceClasses :
            \E h \in curveParameters(controlPoints, where) :
              lookup' = [where |-> where, at |-> h,
                         position |-> getPositionAt(controlPoints, h)]
     ELSE \E distance \in LookupDistances(controlPoints) :
            lookup' = [where |-> classOf(controlPoints, distance),
                       at |-> distance,
                       position |-> getPositionAtDistance(controlPoints,
                                                          distance)]
  /\ UNCHANGED <<turnVars, cameraVars, worldVars, beatVars, loopVars,
                 pathKind,
                 currentStreet>>

NextPath ==
  \/ \E distance \in ExtendDistances(controlPoints) :
       ExtendIfNeededByDistance(distance)
  \/ \E direction \in Directions : SetFlightDirection(direction)
  \/ GetPositionAtDistance

SpecPath == InitPath /\ [][NextPath]_vars

\* ================================================================ claims
\* the point d half units down the corridor from pos in a heading
corridorPoint(pos, heading, d) ==
  <<pos[1] + SinQ(heading) * d, pos[2] + CosQ(heading) * d>>

candidateHeading(direction) == currentFlightAngle + turnAngleOf(direction)

\* C1: while a turn is active, executeTurn (either direction) returns false
\* and leaves direction, start heading, target heading and progress as they
\* were.
C1_ExecuteTurnRejected ==
  [][(turnState.isActive /\ lastOp'.op = "executeTurn")
       => (ret' = FALSE /\ turnState' = turnState
           /\ currentFlightAngle' = currentFlightAngle)]_vars

C1_Witness ==
  /\ lastOp.op = "executeTurn" /\ ret = FALSE
  /\ turnState.isActive /\ turnState.progress > 0
  /\ turnState.direction # lastOp.dir

\* C2: the committed heading changes only in the update that completes a
\* turn, to the turn's start heading plus (left) or minus (right) a quarter
\* turn modulo a full circle; during a turn it is still the start heading.
C2_BaseAngleExact ==
  /\ [](turnState.isActive => getBaseAngle = turnState.startAngle)
  /\ [][currentFlightAngle' # currentFlightAngle
          => /\ lastOp'.op = "update"
             /\ turnState.isActive /\ ~turnState'.isActive
             /\ (currentFlightAngle'
                   - (turnState.startAngle + turnAngleOf(turnState.direction))) % 4 = 0
             /\ turnState.startAngle = currentFlightAngle]_vars

C2_Witness ==
  /\ lastOp.op = "update" /\ ~turnState.isActive /\ turnsStarted = 3
  /\ turnState.startAngle = 2 /\ turnState.direction = "left"
  /\ getBaseAngle = 0 - 1

C4_TurnRunsToCompletion ==
  /\ [][turnState.isActive
          => \/ /\ turnState'.isActive
                /\ turnState'.direction = turnState.direction
                /\ turnState'.startAngle = turnState.startAngle
                /\ turnState'.targetAngle = turnState.targetAngle
                /\ turnState'.progress >= turnState.progress
                /\ currentFlightAngle' = currentFlightAngle
             \/ /\ ~turnState'.isActive
                /\ lastOp'.op = "update"
                /\ currentFlightAngle' = normalizeAngle(turnState.targetAngle)
                /\ flightAngle' = currentFlightAngle']_vars
  /\ (turnState.isActive ~> ~turnState.isActive)

\* a turn ended by the frame that came 100 ms after a perspective switch and
\* 200 ms after the turn began: the switch was made in mid-turn
C4_Witness ==
  /\ ~turnState.isActive /\ turnsStarted = 1 /\ sinceTurn = 200
  /\ currentFlightAngle = 1 /\ flightAngle = 1
  /\ isTransitioning /\ targetPerspective = "third-person"
  /\ perspectiveTransitionProgress = 100 /\ currentSpeed = 100
  /\ currentDistance = 15

\* C5 (as stated): the committed heading is never -180 degrees.
C5_HalfOpen == currentFlightAngle \in {0 - 1, 0, 1, 2}

\* C5 (amended): the committed heading lies in the closed interval
\* [-pi, pi]: it is one of -180, -90, 0, +90, +180 degrees.
C5_Closed == currentFlightAngle \in {0 - 2, 0 - 1, 0, 1, 2}

C5_Witness ==
  /\ ~turnState.isActive /\ turnsStarted = 2 /\ lastOp.op = "update"
  /\ turnState.direction = "right" /\ currentFlightAngle = 0 - 2

\* C6 (as stated): canTurnSafely returns false whenever a turn is active and
\* whenever no position provider is configured.
C6_FalseWithoutProvider ==
  (lastOp.op = "canTurnSafely" /\ (turnState.isActive \/ positionProvider = "null"))
    => ret = FALSE

\* C6 (amended): canTurnSafely returns false whenever a turn is active and a
\* position provider is configured; with no provider configured it returns
\* true.
C6_FalseWhileTurning ==
  /\ (lastOp.op = "canTurnSafely" /\ turnState.isActive /\ positionProvider = "set")
       => ret = FALSE
  /\ (lastOp.op = "canTurnSafely" /\ positionProvider = "null") => ret = TRUE

C6_Witness ==
  /\ lastOp.op = "canTurnSafely" /\ turnState.isActive
  /\ positionProvider = "set" /\ ret = FALSE

\* C7: with no position provider configured canTurnSafely returns true for
\* both directions in every state, also while a turn is in progress.
C7_FailOpen ==
  (lastOp.op = "canTurnSafely" /\ positionProvider = "null") => ret = TRUE

C7_Witness ==
  /\ lastOp.op = "canTurnSafely" /\ positionProvider = "null"
  /\ turnState.isActive /\ turnState.progress > 0 /\ ret = TRUE

C9_OracleMatchesWorld ==
  (/\ probe # <<>> /\ worldChunk.built
   /\ chunkCoord(probe[1]) = worldChunk.chunkX
   /\ chunkCoord(probe[2]) = worldChunk.chunkZ)
    => /\ ~probeBlocked => ~insideFootprint(probe, worldChunk.buildings)
       /\ onStreet(probe) => ~probeBlocked

\* the last n entries of a sequence
lastOf(seq, n) == SubSeq(seq, Max(1, Len(seq) - n + 1), Len(seq))

\* avg is the arithmetic mean of the entries of h (0 for no entries): each
\* value counted as often as it occurs
isMeanOf(avg, h) ==
  LET values == {h[i] : i \in 1..Len(h)}
      count(v) == Cardinality({i \in 1..Len(h) : h[i] = v})
      RECURSIVE total(_)
      total(vs) == IF vs = {} THEN 0
                   ELSE LET v == CHOOSE x \in vs : TRUE
                        IN  v * count(v) + total(vs \ {v})
  IN  IF Len(h) = 0 THEN avg[1] = 0
      ELSE avg[1] * Len(h) = avg[2] * total(values)

\* C10: the short history holds at most 43 samples and the long one at
\* most 120, each exactly the most recent samples pushed, in arrival order,
\* and the average of each window is the arithmetic mean of the samples it
\* holds.
C10_RollingWindows ==
  /\ Len(energyHistory) <= 43 /\ Len(longTermEnergyHistory) <= 120
  /\ energyHistory = lastOf(pushed, 43)
  /\ longTermEnergyHistory = lastOf(pushed, 120)
  /\ isMeanOf(getRollingAverage(energyHistory), energyHistory)
  /\ isMeanOf(getLongTermAverage(longTermEnergyHistory), longTermEnergyHistory)

\* both windows full, samples already evicted from both, and a window that
\* holds different values
C10_Witness ==
  /\ Len(pushed) > 120
  /\ Len(energyHistory) = 43 /\ Len(longTermEnergyHistory) = 120
  /\ longTermEnergyHistory # SubSeq(pushed, 1, 120)
  /\ energyHistory # SubSeq(pushed, 1, 43)
  /\ energyHistory[1] # energyHistory[43]
  /\ longTermEnergyHistory[1] # longTermEnergyHistory[120]

\* ---- the detector's events
\* the step is a frame of the detector
isFrame == frames' = frames + 1

\* the energy of the frame: the sample it pushed
frameEnergy == pushed'[Len(pushed')]

\* the frame meets every condition of its kind but the debounce
beatQualifies ==
  /\ ~(2 * Len(energyHistory') < HISTORY_SIZE)
  /\ beatDetected(getRollingAverage(energyHistory), frameEnergy,
                  MIN_BEAT_INTERVAL_MS + 1, 0)
heavyQualifies ==
  detectHeavyBeatShift(energyHistory', frameEnergy,
                       MIN_HEAVY_BEAT_INTERVAL_MS, 0).fires
transitionQualifies ==
  checkForTransition(longTermEnergyHistory', MIN_TRANSITION_INTERVAL_MS, 0).fires

\* the kind fired in the frame
firedIn(kind) == eventLog'[kind] = now'

\* no event of the kind was notified in the interval before the frame
clearOf(kind, interval) ==
  eventLog[kind] < 0 \/ now' - eventLog[kind] >= interval

\* C11: for each kind, a qualifying frame notifies exactly when no event of
\* that kind was notified within the debounce interval before it (100 ms for
\* beats, 2000 ms for heavy shifts, 8000 ms for transitions): the first of two
\* close qualifying frames notifies, the second does not, and one after the
\* interval notifies again.
C11_Debounce ==
  [][isFrame =>
       /\ firedIn("beat")
            <=> (beatQualifies /\ clearOf("beat", MIN_BEAT_INTERVAL_MS))
       /\ firedIn("heavyBeatShift")
            <=> (heavyQualifies
                 /\ clearOf("heavyBeatShift", MIN_HEAVY_BEAT_INTERVAL_MS))
       /\ firedIn("transition")
            <=> (transitionQualifies
                 /\ clearOf("transition", MIN_TRANSITION_INTERVAL_MS))]_vars

\* the mean of the n entries of a history that end at entry last
meanOver(h, last, n) == Rat(sumRange(h, last - n + 1, last), n)

\* the mean of a whole history, 0 when it is empty
meanOf(h) == IF Len(h) = 0 THEN <<0, 1>> ELSE meanOver(h, Len(h), Len(h))

\* C12: a frame whose energy exceeds 2.5 times the mean of the short window
\* does not notify a heavy shift when the mean of the 12 frames before it is
\* at least half the mean of the short window.
C12_HeavyGating ==
  [][(/\ isFrame
      /\ Len(energyHistory') > 12
      /\ RatLess(RatMul(meanOf(energyHistory'), <<5, 2>>),
                 RatOfInt(frameEnergy))
      /\ ~RatLess(meanOver(energyHistory', Len(energyHistory') - 1, 12),
                  RatMul(meanOf(energyHistory'), <<1, 2>>)))
       => ~firedIn("heavyBeatShift")]_vars

\* a spike above 2.5 times a mean of at least 10, two seconds or more after
\* the last heavy shift, with a window of 17 or more: only the loud frames
\* before it keep it from being a heavy shift
C12_Witness ==
  /\ Len(energyHistory) >= 17
  /\ ~RatLess(meanOf(energyHistory), RatOfInt(10))
  /\ now - lastHeavyBeatShiftTime >= 2000
  /\ RatLess(RatMul(meanOf(energyHistory), <<5, 2>>),
             RatOfInt(energyHistory[Len(energyHistory)]))
  /\ ~RatLess(meanOver(energyHistory, Len(energyHistory) - 1, 12),
              RatMul(meanOf(energyHistory), <<1, 2>>))
  /\ eventLog["heavyBeatShift"] # now
  /\ heavyBeatShiftCallbacks # <<>>

\* C13: each kind has its own timestamp, written only when that kind fires,
\* and whether a kind fires in a frame depends on the frame and on that
\* kind's timestamp alone: not on the other kinds firing.
C13_SeparateTimers ==
  [][isFrame =>
       /\ lastBeatTime' = IF firedIn("beat") THEN now' ELSE lastBeatTime
       /\ lastHeavyBeatShiftTime' =
            IF firedIn("heavyBeatShift") THEN now' ELSE lastHeavyBeatShiftTime
       /\ lastTransitionTime' =
            IF firedIn("transition") THEN now' ELSE lastTransitionTime
       /\ firedIn("beat")
            <=> (beatQualifies /\ now' - lastBeatTime > MIN_BEAT_INTERVAL_MS)
       /\ firedIn("heavyBeatShift")
            <=> (/\ heavyQualifies
                 /\ now' - lastHeavyBeatShiftTime >= MIN_HEAVY_BEAT_INTERVAL_MS)
       /\ firedIn("transition")
            <=> (/\ transitionQualifies
                 /\ now' - lastTransitionTime >= MIN_TRANSITION_INTERVAL_MS)]_vars

\* a beat and a heavy shift fired in the same frame
C13_Witness ==
  /\ now > 0
  /\ eventLog["beat"] = now
  /\ eventLog["heavyBeatShift"] = now
  /\ lastBeatTime = now /\ lastHeavyBeatShiftTime = now
  /\ lastTransitionTime # now

silentTrack == \A i \in 1..Len(track) : track[i][1] <= 0

scenarioTrack == << <<5, 50>>, <<60, 1>>, <<8, 200>> >>

\* C15 as stated: in the scenario, the sample of 60 (frame 51) fires a beat
\* and a heavy shift.
C15_ScenarioFires ==
  (track = scenarioTrack /\ resets = 0 /\ frames >= 51)
    => /\ eventLog["beat"] = 51 * pace
       /\ eventLog["heavyBeatShift"] = 51 * pace

\* C15, amended: in the scenario no beat and no heavy shift is ever
\* notified (the mean of the short window stays below the floor of 10).
C15_ScenarioSilent ==
  (track = scenarioTrack /\ resets = 0)
    => /\ eventLog["beat"] < 0
       /\ eventLog["heavyBeatShift"] < 0
       /\ \A i \in 1..Len(beatNotified) : beatNotified[i][1] = "transition"

\* the scenario has run past the sample of 60 with both kinds subscribed
C15_Witness ==
  /\ track = scenarioTrack /\ resets = 0 /\ frames >= 60
  /\ pushed[51] = 60 /\ pushed[50] = 5 /\ pushed[52] = 8
  /\ beatCallbacks # <<>> /\ heavyBeatShiftCallbacks # <<>>
  /\ eventLog["beat"] < 0 /\ eventLog["heavyBeatShift"] < 0

\* C16: every intensity handed to a subscriber lies in [0, 1].
C16_IntensityRange ==
  \A i \in 1..Len(beatNotified) :
    /\ ~RatLess(beatNotified[i][3], RatOfInt(0))
    /\ ~RatLess(RatOfInt(1), beatNotified[i][3])

\* a transition notified on a dip in which the last 30 samples are all 0
C16_Witness ==
  /\ Len(beatNotified) > 0
  /\ beatNotified[1][1] = "transition"
  /\ Len(longTermEnergyHistory) = 120
  /\ \A i \in 91..120 : longTermEnergyHistory[i] = 0
  /\ beatNotified[1][3] = <<1, 1>>

\* ---- the flight path
\* a getPositionAtDistance call has just returned
isLookup == lookup' # lookup

\* q, in sixteenths, lies on the straight segment from a to b
onSegment(q, a, b) ==
  /\ (b[1] - a[1]) * (q[2] - 16 * a[2]) = (b[2] - a[2]) * (q[1] - 16 * a[1])
  /\ 16 * Min(a[1], b[1]) <= q[1] /\ q[1] <= 16 * Max(a[1], b[1])
  /\ 16 * Min(a[2], b[2]) <= q[2] /\ q[2] <= 16 * Max(a[2], b[2])

\* q is the linear interpolation, for the distance asked, between the two
\* control points of the segment that contains the distance.  (Of a
\* distance asked of the spline path only its class is kept: there q is to
\* lie on a segment.)
interpolates(points, look) ==
  \E i \in 1..(Len(points) - 1) :
    LET start == axisLengthTo(points, i)
        length == axisLengthTo(points, i + 1) - start
    IN  IF pathKind = "spline"
        THEN onSegment(look.position, points[i], points[i + 1])
        ELSE /\ start <= look.at /\ look.at <= start + length
             /\ \A c \in 1..2 :
                  length * (look.position[c] - 16 * points[i][c])
                    = 16 * (points[i + 1][c] - points[i][c]) * (look.at - start)

\* C17: getPositionAtDistance(0) is the first control point, the total
\* length and every distance beyond it give the last control point, and a
\* distance in between gives the linear interpolation between the two
\* control points of its segment.
C17_PositionAtDistance ==
  [][isLookup =>
       /\ lookup'.where = "zero"
            => lookup'.position = exactly(controlPoints[1])
       /\ lookup'.where \in {"total", "beyond"}
            => lookup'.position = exactly(controlPoints[Len(controlPoints)])
       /\ lookup'.where = "inside" => interpolates(controlPoints, lookup')]_vars

\* the cumulative-distance table of the path, in the form of pathDistances
distanceTable ==
  IF pathKind = "spline" THEN pathDistances(controlPoints)
  ELSE [i \in 1..Len(controlPoints) |->
          <<cumulativeDistances(controlPoints)[i], <<>> >>]

\* of two lengths in that form, the second the first and some segments
\* more: the second is the longer
longerBy(a, b) ==
  /\ a[1] <= b[1]
  /\ Len(a[2]) <= Len(b[2])
  /\ SubSeq(b[2], 1, Len(a[2])) = a[2]
  /\ \/ a[1] < b[1]
     \/ \E k \in (Len(a[2]) + 1)..Len(b[2]) : b[2][k] > 0

\* how far along the path the point q (in sixteenths) lies, in sixteenths:
\* the least length of path that leads to it; -1 if it is not on the path
alongPath(points, q) ==
  LET reached == {16 * axisLengthTo(points, i)
                    + Abs(q[1] - 16 * points[i][1])
                    + Abs(q[2] - 16 * points[i][2]) :
                  i \in {j \in 1..(Len(points) - 1) :
                           onSegment(q, points[j], points[j + 1])}}
  IN  IF reached = {} THEN 0 - 1
      ELSE CHOOSE a \in reached : \A b \in reached : a <= b

\* the classes of distances, in the order of the distances in them
classRank(where) ==
  CASE where = "zero" -> 0 [] where = "inside" -> 1
    [] where = "total" -> 2 [] OTHER -> 3

gridSnapped(point) ==
  \A c \in 1..2 :
    IF pathKind = "spline" THEN point[c] % BLOCK_SIZE = 0
    ELSE (point[c] - getStreetCenter(0)) % BLOCK_WITH_STREET = 0

\* the length the build gives a segment
segmentLengthOf(kind) ==
  IF kind = "spline" THEN PATH_SEGMENT_LENGTH ELSE BLOCK_WITH_STREET

\* C19: consecutive control points differ in exactly one of x and z, lie
\* on the street grid and are at most one segment length apart, in the
\* seeded path as in every later one.
C19_AxisAligned ==
  \A i \in 1..(Len(controlPoints) - 1) :
    LET p == controlPoints[i]
        q == controlPoints[i + 1]
    IN  /\ (p[1] = q[1]) # (p[2] = q[2])
        /\ gridSnapped(p) /\ gridSnapped(q)
        /\ squaredLength(p, q)
             <= segmentLengthOf(pathKind) * segmentLengthOf(pathKind)

\* C20: extendIfNeededByDistance and setFlightDirection only append: the
\* control points before the call are an unchanged prefix of those after
\* it.
C20_AppendOnly ==
  [][/\ Len(controlPoints) <= Len(controlPoints')
     /\ SubSeq(controlPoints', 1, Len(controlPoints)) = controlPoints]_vars

\* the seeded path after a left turn and one extension: fifteen segments
\* on along +X
C20_Witness ==
  /\ pathKind = "spline"
  /\ Len(controlPoints) = Len(InitialControlPoints) + 15
  /\ SubSeq(controlPoints, 1, Len(InitialControlPoints)) = InitialControlPoints
  /\ controlPoints[Len(controlPoints)]
       = <<15 * PATH_SEGMENT_LENGTH, EXTEND_AHEAD_DISTANCE>>

\* ---- the camera
\* an update has just completed a turn
turnCompleted == turnState.isActive /\ ~turnState'.isActive

\* C21: when a turn completes, the points of the new heading begin at the
\* camera's current point on the path: the path built before them is no
\* longer than the distance the camera has travelled, so the camera does
\* not go on along the old heading.  (Ten points are appended on
\* completion; the stretches along the axes of the path before them are
\* already compared with the distance.)
C21_KinkAtCamera ==
  [][turnCompleted =>
       axisLength(SubSeq(controlPoints', 1, Len(controlPoints') - 10))
         <= currentDistance']_vars

\* C22: the distance travelled never decreases, and every step that moves
\* the camera is an update that adds exactly the current speed times its
\* frame time (speed in units per second, frame time in ms), whatever the
\* turn and the perspective transition are doing; the other calls leave the
\* distance alone
C22_DistanceAdvances ==
  [][/\ currentDistance' >= currentDistance
     /\ currentZ' - currentZ = currentDistance' - currentDistance
     /\ (lastOp'.op = "update" /\ currentSpeed' = currentSpeed
         /\ switchesIssued' = switchesIssued)
          => 1000 * (currentDistance' - currentDistance)
               = currentSpeed * lastOp'.dt
     /\ (currentSpeed' # currentSpeed \/ switchesIssued' # switchesIssued
         \/ lastOp'.op # "update")
          => currentDistance' = currentDistance]_vars

\* an update has moved the camera at a boosted speed in the middle of a
\* turn and of a perspective transition
C22_Witness ==
  /\ lastOp.op = "update"
  /\ lastOp.dt > 0
  /\ currentDistance > (baseSpeed * lastOp.dt) \div 1000
  /\ turnState.isActive
  /\ turnState.progress > 0
  /\ isTransitioning
  /\ perspectiveTransitionProgress > 0
  /\ currentSpeed > baseSpeed

\* C23: a boost sets the current speed to the base speed times the
\* multiplier whatever the speed was, an easing moves the speed toward the
\* base speed without passing it and reaches it for the factor 1, the base
\* speed never changes, and the speed rises only by a boost, so it stays
\* between the base speed and the largest boost applied
C23_BoostAndEase ==
  [][/\ baseSpeed' = baseSpeed
     /\ currentSpeed >= baseSpeed
     /\ currentSpeed' >= baseSpeed
     /\ \A m \in RideBoosts :
          BoostSpeed(m) => currentSpeed' * m[2] = baseSpeed * m[1]
     /\ \A f \in RideEases :
          (wholeLerp(currentSpeed, baseSpeed, f, SPEED_STEP)
           /\ EaseToBaseSpeed(f))
            => /\ currentSpeed' <= currentSpeed
               /\ f[1] > 0 /\ currentSpeed > baseSpeed
                    => currentSpeed' < currentSpeed
               /\ f[1] = f[2] => currentSpeed' = baseSpeed
     /\ currentSpeed' > currentSpeed
          => \E m \in RideBoosts : /\ currentSpeed' * m[2] = baseSpeed * m[1]
                                   /\ BoostSpeed(m)]_vars

\* the camera has moved and its speed, once boosted, has been eased part of
\* the way back
C23_Witness ==
  /\ currentSpeed > baseSpeed
  /\ currentSpeed % baseSpeed # 0
  /\ currentDistance > 0

\* an update has started the automatic return to first-person
autoReturnStarted ==
  /\ lastOp'.op = "update"
  /\ switchesIssued' = switchesIssued
  /\ targetPerspective = "third-person"
  /\ targetPerspective' = "first-person"

\* C24: the automatic return to first-person starts only once 6 s of frame
\* time have been spent in settled third-person mode
C24_SixSecondsInThirdPerson ==
  [][autoReturnStarted
       => timeInThirdPerson' >= THIRD_PERSON_DURATION_MS]_vars

\* the place of a call among the calls of the frame (0: not made)
placeOf(call) ==
  IF \E i \in DOMAIN frameCalls : frameCalls[i] = call
  THEN CHOOSE i \in DOMAIN frameCalls : frameCalls[i] = call
  ELSE 0

\* C25: in a started frame the camera controller's update is called only
\* after updateBeatDetection, and the chunk manager's update and the render
\* only after the camera controller's update
C25_ClassifierBeforeCamera ==
  /\ placeOf("cameraController.update") > 0
       => /\ placeOf("updateBeatDetection") > 0
          /\ placeOf("updateBeatDetection") < placeOf("cameraController.update")
  /\ (started /\ placeOf("chunkManager.update") > 0)
       => /\ placeOf("cameraController.update") > 0
          /\ placeOf("cameraController.update") < placeOf("chunkManager.update")
  /\ placeOf("renderWithMotionBlur") > 0
       => placeOf("chunkManager.update") < placeOf("renderWithMotionBlur")

\* the callbacks subscribed to a kind of event
subscribersOf(kind) ==
  CASE kind = "beat" -> beatCallbacks
    [] kind = "transition" -> transitionCallbacks
    [] kind = "heavyBeatShift" -> heavyBeatShiftCallbacks

\* the calls an update has made for a kind of event
callsOf(kind, calls) == SelectSeq(calls, LAMBDA call : call[1] = kind)

\* C26: in a frame where an event of a kind fires, the callbacks subscribed
\* to that kind when the frame starts are called once per subscription, in
\* subscription order and all with one intensity; in a frame where the kind
\* does not fire none of its callbacks is called; the frame changes no
\* subscription, and a callback taken off a list is on no list of calls later
C26_Subscribers ==
  [][frames' = frames + 1
       => /\ \A kind \in EventKinds :
               LET calls == callsOf(kind, beatNotified')
                   subscribed == subscribersOf(kind)
               IN  IF eventLog'[kind] # eventLog[kind]
                   THEN /\ Len(calls) = Len(subscribed)
                        /\ \A i \in DOMAIN calls :
                             /\ calls[i][2] = subscribed[i]
                             /\ calls[i][3] = calls[1][3]
                   ELSE calls = <<>>
          /\ \A i \in DOMAIN beatNotified' :
               beatNotified'[i][1] \in EventKinds
          /\ UNCHANGED <<beatCallbacks, transitionCallbacks,
                         heavyBeatShiftCallbacks>>]_vars

\* a beat has just called two different subscribers in the order they
\* subscribed in, while a subscriber of transitions was left alone
C26_Witness ==
  /\ frames > ChangeStride
  /\ eventLog["beat"] = now
  /\ beatCallbacks = <<"cbB", "cbA">>
  /\ Len(callsOf("beat", beatNotified)) = 2
  /\ transitionCallbacks # <<>>
  /\ callsOf("transition", beatNotified) = <<>>

\* C27: a frame fires an ordinary beat exactly when the short window, with
\* the frame's sample in it, holds at least half its capacity, has a mean of
\* at least 10, at least 100 ms have passed since the last beat, and the
\* frame's energy exceeds 1.5 times that mean
C27_BeatAfterPush ==
  [][frames' = frames + 1
       => LET window == energyHistory'
              mean == getRollingAverage(window)
              energy == window[Len(window)]
          IN  beatRet'
                <=> /\ 2 * Len(window) >= HISTORY_SIZE
                    /\ ~RatLess(mean, RatOfInt(10))
                    /\ now' - lastBeatTime >= MIN_BEAT_INTERVAL_MS
                    /\ RatLess(RatMul(mean, BEAT_THRESHOLD),
                               RatOfInt(energy))]_vars

\* C28: the calls a frame makes to heavy-shift subscribers all come before
\* its calls to transition subscribers and to beat subscribers
C28_HeavyShiftFirst ==
  \A i, j \in DOMAIN beatNotified :
    (beatNotified[i][1] = "heavyBeatShift"
     /\ beatNotified[j][1] \in {"transition", "beat"})
      => i < j

\* C29: getBeatIntensity() is between 0 and 1; a frame where a beat fires
\* leaves it at the intensity handed to the beat subscribers, a frame where
\* no beat fires takes 0.05 off it without going below 0, and 20 frames
\* without a beat after a beat bring it back to 0
C29_IntensityDecays ==
  /\ [](/\ ~RatLess(currentBeatIntensity, RatOfInt(0))
        /\ ~RatLess(RatOfInt(1), currentBeatIntensity))
  /\ [][isFrame =>
          IF firedIn("beat")
          THEN \A i \in 1..Len(beatNotified') :
                 beatNotified'[i][1] = "beat"
                   => beatNotified'[i][3] = currentBeatIntensity'
          ELSE IF RatLess(currentBeatIntensity, <<1, 20>>)
          THEN currentBeatIntensity' = <<0, 1>>
          ELSE RatSub(currentBeatIntensity, currentBeatIntensity')
                 = <<1, 20>>]_vars
  /\ []((lastBeatTime > 0 /\ now - lastBeatTime >= 20 * pace)
          => currentBeatIntensity = <<0, 1>>)

\* 19 frames without a beat after a beat of intensity 1, with a subscriber
\* to beats: the intensity is down to 0.05
C29_Witness ==
  /\ beatCallbacks # <<>>
  /\ lastBeatTime > 0 /\ now - lastBeatTime = 19 * pace
  /\ currentBeatIntensity = <<1, 20>>

\* the step of one unit along a heading of quarter turns (0 is +Z, 1 is +X)
headingUnit(angle) ==
  CASE angle % 4 = 0 -> <<0, 1>>
    [] angle % 4 = 1 -> <<1, 0>>
    [] angle % 4 = 2 -> <<0, 0 - 1>>
    [] OTHER -> <<0 - 1, 0>>

\* at least EXTEND_THRESHOLD of path is left past the distance
thresholdLeft(points, distance) ==
  IF pathKind = "spline" THEN ~nearPathEnd(points, distance)
  ELSE axisLength(points) - distance >= EXTEND_THRESHOLD

\* C30: extendIfNeededByDistance(d) leaves the path as it is when at least
\* 500 units of it are left past d; otherwise it appends exactly 5 control
\* points, each one segment length past the point before it along the
\* current heading and on the street grid; the heading stays as it was
C30_ExtendInHeading ==
  [][\A distance \in ExtendDistances(controlPoints) :
       ExtendIfNeededByDistance(distance) =>
         /\ flightAngle' = flightAngle
         /\ IF thresholdLeft(controlPoints, distance)
            THEN controlPoints' = controlPoints
            ELSE /\ Len(controlPoints') = Len(controlPoints) + 5
                 /\ SubSeq(controlPoints', 1, Len(controlPoints))
                      = controlPoints
                 /\ \A i \in (Len(controlPoints) + 1)..Len(controlPoints') :
                      /\ gridSnapped(controlPoints'[i])
                      /\ \A c \in 1..2 :
                           controlPoints'[i][c]
                             = controlPoints'[i - 1][c]
                                 + segmentLengthOf(pathKind)
                                     * headingUnit(flightAngle)[c]]_vars

\* the seeded spline path after a right turn and one extension past it:
\* fifteen segments on along -X
C30_Witness ==
  /\ pathKind = "spline"
  /\ flightAngle = 0 - 1
  /\ Len(controlPoints) = Len(InitialControlPoints) + 15
  /\ controlPoints[Len(controlPoints)]
       = <<0 - 15 * PATH_SEGMENT_LENGTH, EXTEND_AHEAD_DISTANCE>>

\* C31: the path heading changes only in the update that completes a turn,
\* where setFlightDirection sets it to the committed heading and appends
\* exactly 10 control points, each one segment past the point before it
\* along the new heading; between operations the path heading equals the
\* turn controller's committed base heading
C31_HeadingFollowsTurns ==
  /\ [](flightAngle = getBaseAngle)
  /\ [][/\ flightAngle' # flightAngle => turnCompleted
        /\ turnCompleted =>
             /\ flightAngle' = normalizeAngle(turnState.targetAngle)
             /\ flightAngle' # flightAngle
             /\ Len(controlPoints') = Len(controlPoints) + 10
             /\ SubSeq(controlPoints', 1, Len(controlPoints)) = controlPoints
             /\ \A i \in (Len(controlPoints) + 1)..Len(controlPoints') :
                  \A c \in 1..2 :
                    controlPoints'[i][c]
                      = controlPoints'[i - 1][c]
                          + PATH_SEGMENT_LENGTH * headingUnit(flightAngle')[c]
        /\ ~turnCompleted => controlPoints' = controlPoints]_vars

\* an update has just completed a right turn: the path heads along -X,
\* ten points past the seeded ones
C31_Witness ==
  /\ lastOp.op = "update" /\ ~isTurning /\ turnsStarted = 1
  /\ flightAngle = 0 - 1 /\ getBaseAngle = 0 - 1
  /\ Len(controlPoints) = Len(InitialControlPoints) + 10
  /\ controlPoints[Len(controlPoints)]
       = <<0 - 10 * PATH_SEGMENT_LENGTH, EXTEND_AHEAD_DISTANCE>>

\* the step is a call of TurnController.update
isTurnUpdate == lastOp'.op = "update"

\* C32: a started turn completes exactly once.  The update in which the
\* progress reaches 1 clamps it to 1, makes the turn inactive, commits the
\* heading, calls every turn-complete subscriber once with the turn's
\* direction and calls setFlightDirection once with the committed heading;
\* updates before it only advance the progress, and updates after it change
\* nothing until executeTurn starts a new turn
C32_CompletesOnce ==
  /\ [](Len(controlPoints)
          = Len(InitialControlPoints)
              + 10 * (turnsStarted - (IF isTurning THEN 1 ELSE 0)))
  /\ [][isTurnUpdate =>
          IF ~isTurning
          THEN /\ UNCHANGED <<turnState, currentFlightAngle, flightAngle,
                              controlPoints>>
               /\ notified' = <<>> /\ ret' = FALSE
          ELSE IF turnState.progress + (sinceTurn' - sinceTurn)
                    < TURN_DURATION_MS
          THEN /\ turnState'
                    = [turnState EXCEPT
                         !.progress = @ + (sinceTurn' - sinceTurn)]
               /\ UNCHANGED <<currentFlightAngle, flightAngle, controlPoints>>
               /\ notified' = <<>> /\ ret' = TRUE
          ELSE /\ turnState'
                    = [turnState EXCEPT !.progress = TURN_DURATION_MS,
                                        !.isActive = FALSE]
               /\ currentFlightAngle' = normalizeAngle(turnState.targetAngle)
               /\ Len(notified') = Len(turnCompleteCallbacks)
               /\ \A i \in 1..Len(notified') :
                    notified'[i]
                      = <<turnCompleteCallbacks[i], turnState.direction>>
               /\ flightAngle' = currentFlightAngle'
               /\ Len(controlPoints') = Len(controlPoints) + 10
               /\ ret' = FALSE]_vars
  /\ [][(~isTurning /\ turnState'.isActive)
          => (lastOp'.op = "executeTurn" /\ ret')]_vars

\* the third turn has completed with a subscriber listening, and an update
\* has run after it
C32_Witness ==
  /\ turnsStarted = 3 /\ ~isTurning
  /\ turnCompleteCallbacks # <<>>
  /\ lastOp.op = "update" /\ notified = <<>>
  /\ Len(controlPoints) = Len(InitialControlPoints) + 30

\* the oracle's answer for the direction, with no turn active
oracleAllows(pos, base, direction) ==
  canTurnSafely(positionProvider, FALSE, pos, base, direction)

\* C33: executeTurn called while no turn is active starts the turn and
\* returns true, whatever canTurnSafely would answer for the direction at
\* that moment, and the update that completes the turn commits its target
\* heading, whatever the oracle would answer then
C33_NoRevalidation ==
  /\ [][(lastOp'.op = "executeTurn" /\ ~isTurning) =>
          \A allowed \in BOOLEAN :
            oracleAllows(providerPos, currentFlightAngle, lastOp'.dir)
                = allowed
              => /\ ret'
                 /\ turnState'
                      = [isActive |-> TRUE, progress |-> 0,
                         direction |-> lastOp'.dir,
                         startAngle |-> currentFlightAngle,
                         targetAngle |-> candidateHeading(lastOp'.dir)]]_vars
  /\ [][turnCompleted =>
          \A allowed \in BOOLEAN :
            oracleAllows(providerPos, turnState.startAngle,
                         turnState.direction) = allowed
              => /\ getBaseAngle' = normalizeAngle(turnState.targetAngle)
                 /\ flightAngle' = getBaseAngle']_vars

\* executeTurn has just started a turn that canTurnSafely, asked with the
\* provider set and no turn active, refuses
C33_Witness ==
  /\ lastOp.op = "executeTurn" /\ ret
  /\ isTurning /\ turnState.progress = 0
  /\ positionProvider = "set"
  /\ ~oracleAllows(providerPos, turnState.startAngle, turnState.direction)

\* the point (half units) has x or z on a multiple of BLOCK_SIZE
onStreetLine(point) ==
  point[1] % (2 * BLOCK_SIZE) = 0 \/ point[2] % (2 * BLOCK_SIZE) = 0

\* C34 (as stated): the oracle calls no point on a street line blocked, and
\* with a provider set and no turn active there is a position and a
\* direction for which canTurnSafely returns true
C34_StreetLinesClear ==
  /\ (probe # <<>> /\ onStreetLine(probe)) => ~probeBlocked
  /\ \E pos \in WorldProbes, d \in Directions :
       canTurnSafely("set", FALSE, pos, currentFlightAngle, d)

\* C35: an update that advances the camera by no more than 500 units, from
\* a state with at least 500 units of path ahead of the camera, leaves at
\* least 500 units of path ahead of it, whatever turns are made; the seeded
\* path has that much ahead, and no other operation changes the path or the
\* distance travelled
C35_PathStaysAhead ==
  /\ [][(/\ <<controlPoints', currentDistance'>>
              # <<controlPoints, currentDistance>>
         /\ currentDistance' - currentDistance <= EXTEND_THRESHOLD
         /\ ~nearPathEnd(controlPoints, currentDistance))
          => ~nearPathEnd(controlPoints', currentDistance')]_vars
  /\ ~nearPathEnd(InitialControlPoints, 0)

\* the camera has gone past the end of the seeded path in frames of 500
\* units, a turn has completed on the way, and the path was extended
C35_Witness ==
  /\ lastOp.op = "update" /\ lastOp.dt = 400 /\ currentSpeed = 1250
  /\ currentDistance > EXTEND_AHEAD_DISTANCE + EXTEND_THRESHOLD
  /\ flightAngle # 0 /\ ~isTurning
  /\ Len(controlPoints) > Len(InitialControlPoints) + 10
  /\ ~nearPathEnd(controlPoints, currentDistance)

\* the step appends control points
isAppend ==
  /\ Len(controlPoints') > Len(controlPoints)
  /\ SubSeq(controlPoints', 1, Len(controlPoints)) = controlPoints

\* C36 (as stated): appending points does not move the camera.  On the
\* segments path every distance below the old total is given the same
\* position and tangent after the call as before it.  On the spline path
\* the positions of the distances below the old total are the points of the
\* curve over the old spans, so every point of that curve that is known
\* exactly is still the curve's point, at the same place of the same span,
\* after the call.
C36_AppendKeepsPositions ==
  [][isAppend =>
       IF pathKind = "segments"
       THEN \A d \in LookupDistances(controlPoints) :
              (0 <= d /\ d < axisLength(controlPoints)) =>
                /\ getPositionAtDistance(controlPoints', d)
                     = getPositionAtDistance(controlPoints, d)
                /\ getTangentAtDistance(controlPoints', d)
                     = getTangentAtDistance(controlPoints, d)
       ELSE \A h \in curveParameters(controlPoints, "inside") :
              getPositionAt(controlPoints', h) = getPositionAt(controlPoints, h)]_vars

\* C37 (as stated): when a subscriber calls executeTurn from inside its
\* callback, every subscriber is still called with the direction of the
\* turn that completed, setFlightDirection receives the heading that turn
\* committed, and the value update returns is what isTurning() answers
\* right after it.
C37_ReentrantConsistent ==
  [][(/\ lastOp'.op = "update"
      /\ turnState.isActive
      /\ notified' # <<>>)
       => /\ \A i \in 1..Len(notified') : notified'[i][2] = turnState.direction
          /\ Len(notified') = Len(turnCompleteCallbacks)
          /\ flightAngle' = normalizeAngle(turnState.targetAngle)
          /\ currentFlightAngle' = flightAngle'
          /\ ret' = turnState'.isActive]_vars

\* C38 (as stated): the debounce only separates an event from an earlier
\* event of its kind.  In a frame that qualifies for a kind of which no
\* event has fired since start-up or since resetBeatDetection (its
\* timestamp is still 0), the kind fires, whatever the clock reads.
C38_FirstEventFires ==
  [][isFrame =>
       /\ (beatQualifies /\ lastBeatTime = 0) => firedIn("beat")
       /\ (heavyQualifies /\ lastHeavyBeatShiftTime = 0)
            => firedIn("heavyBeatShift")
       /\ (transitionQualifies /\ lastTransitionTime = 0)
            => firedIn("transition")]_vars

\* C39 (as stated): whichever way the experience was started, the analyser
\* has been initialised and a source feeds it, and the snapshot every
\* updateBeatDetection of the started experience reads is not empty.
C39_AnalyserReady ==
  started => /\ analyserNode = "connected"
             /\ frames > 0 => frequencyData # <<>>
====
